---- MODULE Spec2Model ----
(***************************************************************************)
(* Ban-metrics bot (src/ban_stats/src/main.py): the record store, the      *)
(* fact extractor, the live handlers on_member_join / on_member_ban, the   *)
(* one-time historical backfill started by on_ready, and the /banstats     *)
(* report.                                                                 *)
(*                                                                         *)
(* Conventions                                                             *)
(*  - A text that the code parses (embed title, description, footer text)  *)
(*    is a sequence of tokens; a token is a run of characters of one       *)
(*    class (a literal, a mention, blanks, a newline, plain text).         *)
(*  - A value stored in the database is a string; SQL NULL is NULL.        *)
(*  - Snowflake ids are small naturals, order preserved; a datetime is a   *)
(*    number of half hours (see Dates and times).                          *)
(*  - The bot runs on one asyncio event loop: a coroutine runs without     *)
(*    interruption from one await to the next, and the sqlite3 calls are   *)
(*    synchronous.  One action is one such uninterrupted segment.          *)
(***************************************************************************)
EXTENDS Integers, Sequences, FiniteSets, TLC

VARIABLES
    bans,       \* table bans: offender_id -> row, for the rows that exist
    meta,       \* table meta: the value stored under "backfill_done", or NULL
    guilds,     \* bot.guilds: the attached guilds with their log channel
    now,        \* the wall clock read by datetime.now(timezone.utc)
    ready,      \* the on_ready invocations of this process
    banTasks,   \* on_member_ban handlers suspended in guild.audit_logs
    log,        \* the lines printed by each on_ready invocation
    call,       \* the save_or_update call under test: key and columns
    live,       \* per offender, the columns last written by a live handler
    scanMsg,    \* the history message the loop body is run on
    scanFact,   \* what the loop body made of scanMsg
    disk,       \* the PNG files banstats leaves in the working directory
    reply,      \* what the last /banstats invocation gave its caller
    wall,   \* time.time() of the two command bots, in seconds
    USER_COOLDOWNS, \* summarizer: user_id -> the timestamps of counted uses
    last_used, \* random colors: user_id -> time.time() of the last use
    roles,  \* random colors: the members holding ROLE_NAME
    gate,   \* per user, the times of the latest invocations past the gate
    response \* what the last /summarize or /randomcolors gave its caller

vars == <<bans, meta, guilds, now, ready, banTasks, log, call, live, scanMsg, scanFact, disk, reply, wall, USER_COOLDOWNS, last_used, roles, gate, response>>

(***************************************************************************)
(* Bounds of the model                                                     *)
(***************************************************************************)
MaxTime == 4        \* the clock runs from StartTime to MaxTime
MaxReady == 2       \* on_ready fires at most this often per process
MaxBanTasks == 2    \* on_member_ban handlers in flight at once

NULL == "NULL"

(***************************************************************************)
(* Strings                                                                 *)
(***************************************************************************)
\* the text kept as written, no case folding
KeepCase(s) == s

\* str.lower() on one token
lower(s) ==
    CASE s = "Ban | Case" -> "ban | case"
      [] s = "BAN | CASE" -> "ban | case"
      [] s = "Kick | Case" -> "kick | case"
      [] s = "Mod A" -> "mod a"
      [] s = "Mod B" -> "mod b"
      [] s = "Mod#1" -> "mod#1"
      [] s = "Joined The Server" -> "joined the server"
      [] s = "ID" -> "id"
      [] s = "**Offender:**" -> "**offender:**"
      [] s = "**Responsible moderator:**" -> "**responsible moderator:**"
      [] OTHER -> s

\* str.lower() on a tokenised text
LowerText(t) == [i \in DOMAIN t |-> lower(t[i])]

IsSpace(tok) == tok \in {" ", "\n"}

\* str.strip() on a tokenised text
RECURSIVE LStrip(_)
LStrip(t) == IF t # <<>> /\ IsSpace(Head(t)) THEN LStrip(Tail(t)) ELSE t

RECURSIVE RStrip(_)
RStrip(t) ==
    IF t # <<>> /\ IsSpace(t[Len(t)]) THEN RStrip(SubSeq(t, 1, Len(t) - 1)) ELSE t

Strip(t) == RStrip(LStrip(t))

\* the Python string a tokenised text stands for
RECURSIVE Concat(_)
Concat(t) == IF t = <<>> THEN "" ELSE Head(t) \o Concat(Tail(t))

\* str.startswith
StartsWith(t, prefix) ==
    Len(t) >= Len(prefix) /\ SubSeq(t, 1, Len(prefix)) = prefix

\* `sub in text` for a one-token substring
Contains(t, tok) == \E i \in DOMAIN t : t[i] = tok

(***************************************************************************)
(* Dates and times.  A datetime is the number of half hours since          *)
(* 2020-12-01T00:00 UTC; a date is the number of days since 2020-12-01.    *)
(***************************************************************************)
HOUR == 2               \* timedelta(hours=1)
DAY == 24 * HOUR        \* timedelta(days=1)

IsLeap(y) == y % 4 = 0 /\ (y % 100 # 0 \/ y % 400 = 0)

DaysInMonth(y, m) ==
    IF m = 2 THEN (IF IsLeap(y) THEN 29 ELSE 28)
    ELSE IF m \in {4, 6, 9, 11} THEN 30 ELSE 31

\* year, month and day of the day d days after the first of month m of year y
RECURSIVE YMD(_, _, _)
YMD(d, y, m) ==
    IF d >= DaysInMonth(y, m)
    THEN IF m = 12 THEN YMD(d - DaysInMonth(y, m), y + 1, 1)
         ELSE YMD(d - DaysInMonth(y, m), y, m + 1)
    ELSE [year |-> y, month |-> m, day |-> d + 1]

\* datetime.date(), as a day number and as year, month, day
toordinal(t) == t \div DAY
date(t) == YMD(toordinal(t), 2020, 12)

\* the two-digit fields of isoformat and strftime
Pad2(n) == IF n < 10 THEN "0" \o ToString(n) ELSE ToString(n)

\* date.isoformat(): YYYY-MM-DD
isodate(t) ==
    ToString(date(t).year) \o "-" \o Pad2(date(t).month) \o "-" \o Pad2(date(t).day)

\* datetime.isoformat() of an aware UTC datetime
isoformat(t) ==
    isodate(t) \o "T" \o Pad2((t % DAY) \div HOUR) \o ":"
        \o Pad2((t % HOUR) * (60 \div HOUR)) \o ":00+00:00"

\* str(int) of a user id
str(id) == ToString(id)

\* the test the wrong way round: None or ''
Falsy(v) == v = NULL \/ v = ""

\* Python truthiness of a fetched column: neither None nor ''
Truthy(v) == v # NULL /\ v # ""

(***************************************************************************)
(* Record store                                                            *)
(***************************************************************************)
Columns == {"offender_tag", "joined_at", "banned_at", "moderator", "reason"}

\* the row INSERT creates: the named columns, NULL elsewhere
NewRow(cols) == [c \in Columns |-> IF c \in DOMAIN cols THEN cols[c] ELSE NULL]

\* a full-row overwrite, what INSERT OR REPLACE would do
ReplaceRow(b, offender_id, cols) ==
    IF offender_id \in DOMAIN b
    THEN [b EXCEPT ![offender_id] = NewRow(cols)]
    ELSE b @@ (offender_id :> NewRow(cols))

\* INSERT ... ON CONFLICT(offender_id) DO UPDATE SET k=excluded.k for k in cols
save_or_update(b, offender_id, cols) ==
    IF offender_id \in DOMAIN b
    THEN [b EXCEPT ![offender_id] =
            [c \in Columns |->
                IF c \in DOMAIN cols THEN cols[c] ELSE b[offender_id][c]]]
    ELSE b @@ (offender_id :> NewRow(cols))

\* SELECT col FROM bans WHERE offender_id = ? ... .fetchone(), then `cur and cur[0]`
HasColumn(b, offender_id, col) ==
    /\ offender_id \in DOMAIN b
    /\ Truthy(b[offender_id][col])

\* the flag is not looked at
AlwaysNeeded(m) == TRUE

\* meta_get("backfill_done") != "1"
BackfillNeeded(m) == m # "1"

(***************************************************************************)
(* Fact extractor: the per-message part of backfill_carl_history           *)
(***************************************************************************)
OFFENDER == "**Offender:**"
MODERATOR == "**Responsible moderator:**"
JOIN_PHRASE == "joined the server"

\* <@(\d+)>
IsMention(tok) == tok \in {"<@1>", "<@2>"}
MentionId(tok) == IF tok = "<@1>" THEN "1" ELSE "2"

\* [^\n<]: a token none of whose characters is a newline or '<'
InModClass(tok) == tok \notin {"\n", "<@1>", "<@2>", "<@!1>", "<"}

\* the blanks \s* may take after the moderator label at k
RECURSIVE SpaceRun(_, _)
SpaceRun(d, p) ==
    IF p <= Len(d) /\ IsSpace(d[p]) THEN 1 + SpaceRun(d, p + 1) ELSE 0

\* the maximal run [^\n<]+ takes from p
RECURSIVE ModRun(_, _)
ModRun(d, p) ==
    IF p <= Len(d) /\ InModClass(d[p]) THEN <<d[p]>> \o ModRun(d, p + 1) ELSE <<>>

\* \s*([^\n<]+) after position k: \s* is greedy and gives blanks back until the
\* group can start; <<>> when it cannot
ModGroup(d, k) ==
    LET w == SpaceRun(d, k + 1)
        ok == {c \in 0..w : ModRun(d, k + c + 1) # <<>>}
    IN  IF ok = {} THEN <<>>
        ELSE ModRun(d, k + (CHOOSE c \in ok : \A c2 \in ok : c2 <= c) + 1)

\* BAN_EMBED_RE.search(description): <<>> or <<group 1, group 2>>
BanEmbedSearch(d) ==
    LET hits == {ijk \in (DOMAIN d) \X (DOMAIN d) \X (DOMAIN d) :
                    /\ ijk[1] < ijk[2] /\ ijk[2] < ijk[3]
                    /\ d[ijk[1]] = OFFENDER
                    /\ IsMention(d[ijk[2]])
                    /\ d[ijk[3]] = MODERATOR
                    /\ ModGroup(d, ijk[3]) # <<>>}
        Before(a, b) ==
            \/ a[1] < b[1]
            \/ a[1] = b[1] /\ a[2] < b[2]
            \/ a[1] = b[1] /\ a[2] = b[2] /\ a[3] <= b[3]
    IN  IF hits = {} THEN <<>>
        ELSE LET m == CHOOSE a \in hits : \A b \in hits : Before(a, b)
             IN  <<MentionId(d[m[2]]), ModGroup(d, m[3])>>

\* footer.text.split(":")[1]
SplitSecond(t) ==
    LET colons == {i \in DOMAIN t : t[i] = ":"}
        first == CHOOSE i \in colons : \A j \in colons : i <= j
        rest == {i \in colons : i > first}
        stop == IF rest = {} THEN Len(t) + 1
                ELSE CHOOSE i \in rest : \A j \in rest : i <= j
    IN  SubSeq(t, first + 1, stop - 1)

NotApplicable == [kind |-> "na"]
Raised == [kind |-> "raise"]

\* the join branch tried before the ban branch
ExtractJoinFirst(m) ==
    IF m.embeds = <<>> THEN NotApplicable
    ELSE LET emb == m.embeds[1] IN
         IF emb.description # <<>>
            /\ Contains(LowerText(emb.description), JOIN_PHRASE)
            /\ emb.footer.kind = "text"
            /\ StartsWith(emb.footer.text, <<"ID", ":", " ">>)
         THEN [kind |-> "join",
               offender_id |-> Concat(Strip(SplitSecond(emb.footer.text))),
               joined_at |-> m.created_at]
         ELSE IF emb.title # <<>> /\ StartsWith(LowerText(emb.title), <<"ban | case">>)
                 /\ BanEmbedSearch(emb.description) # <<>>
         THEN [kind |-> "ban",
               offender_id |-> BanEmbedSearch(emb.description)[1],
               banned_at |-> m.created_at,
               moderator |-> Concat(LowerText(Strip(BanEmbedSearch(emb.description)[2])))]
         ELSE NotApplicable

\* lines 214-252 up to the store access: the candidate fact of one message
Extract(msg) ==
    IF msg.embeds = <<>> THEN NotApplicable
    ELSE LET emb == msg.embeds[1] IN
         IF emb.title # <<>> /\ StartsWith(LowerText(emb.title), <<"ban | case">>)
         THEN LET m == BanEmbedSearch(emb.description) IN
              IF m = <<>> THEN NotApplicable
              ELSE [kind |-> "ban",
                    offender_id |-> m[1],
                    banned_at |-> msg.created_at,
                    moderator |-> Concat(LowerText(Strip(m[2])))]
         ELSE IF emb.description # <<>>
                 /\ Contains(LowerText(emb.description), JOIN_PHRASE)
         THEN IF emb.footer.kind = "none" THEN NotApplicable
              ELSE IF emb.footer.kind = "notext" THEN Raised
              ELSE IF ~StartsWith(emb.footer.text, <<"ID", ":", " ">>)
                   THEN NotApplicable
              ELSE [kind |-> "join",
                    offender_id |-> Concat(Strip(SplitSecond(emb.footer.text))),
                    joined_at |-> msg.created_at]
         ELSE NotApplicable

(***************************************************************************)
(* The environment: guilds, their log channels and message histories       *)
(***************************************************************************)
START_AFTER == 1    \* the anchor; ids are scaled down, order kept
StartTime == 3      \* the clock when the process first starts

NoFooter == [kind |-> "none"]
IdFooter(who) == [kind |-> "text", text |-> <<"ID", ":", " ", who>>]

PlainMsg(id) == [id |-> id, created_at |-> id, embeds |-> <<>>]
NoMsg == PlainMsg(0)

BanMsg(id, title, mention, modtext) ==
    [id |-> id, created_at |-> id,
     embeds |-> <<[title |-> <<title, " #7">>,
                   description |-> <<OFFENDER, " ", "user", " ", mention, "\n",
                                     "**Reason:**", " ", "spam", "\n",
                                     MODERATOR, " ", modtext, "\n">>,
                   footer |-> NoFooter]>>]

JoinMsg(id, phrase, who) ==
    [id |-> id, created_at |-> id,
     embeds |-> <<[title |-> <<>>,
                   description |-> <<"<@1>", " ", phrase>>,
                   footer |-> IdFooter(who)]>>]

\* the log channel of each guild as Discord holds it, oldest message first
HistA == <<BanMsg(1, "Ban | Case", "<@1>", "Mod B"),
           JoinMsg(2, "Joined The Server", "1"),
           BanMsg(3, "BAN | CASE", "<@1>", "Mod A"),
           BanMsg(4, "Ban | Case", "<@1>", "Mod B")>>
HistB == <<BanMsg(2, "Ban | Case", "<@1>", "Mod B"),
           JoinMsg(3, JOIN_PHRASE, "2")>>

\* a channel where a join embed has a footer with an icon and no text
HistC == <<[id |-> 2, created_at |-> 2,
            embeds |-> <<[title |-> <<>>,
                          description |-> <<"<@2>", " ", JOIN_PHRASE>>,
                          footer |-> [kind |-> "notext"]]>>],
           BanMsg(3, "Ban | Case", "<@1>", "Mod A")>>

\* guild.get_channel(CARL_LOG_CHANNEL_ID)
get_channel(g) == g \in {"A", "B", "C"}

\* the whole history, the anchor not looked at
WholeHistory(h) == h

\* chan.history(limit=None, oldest_first=True, after=START_AFTER)
RECURSIVE After(_)
After(h) ==
    IF h = <<>> THEN <<>>
    ELSE IF Head(h).id > START_AFTER THEN <<Head(h)>> \o After(Tail(h))
    ELSE After(Tail(h))

\* what the scan of each channel makes of its messages, in the order it sees them
FactsA == [i \in DOMAIN After(HistA) |-> Extract(After(HistA)[i])]
FactsB == [i \in DOMAIN After(HistB) |-> Extract(After(HistB)[i])]
FactsC == [i \in DOMAIN After(HistC) |-> Extract(After(HistC)[i])]
Facts(g) ==
    CASE g = "A" -> FactsA
      [] g = "B" -> FactsB
      [] g = "C" -> FactsC
      [] OTHER -> <<>>

\* the guild lists the bot may be attached to (bot.guilds)
Deployments == {<<"A", "B">>, <<"X", "A">>, <<"X", "X">>}

\* the users live events are about, and what the audit trail may answer
Users == {1}
Tag(id) == "user#" \o ToString(id)
AuditEntry(target, user, reason) == [target |-> target, user |-> user, reason |-> reason]
AuditOutcomes ==
    {[kind |-> "forbidden", entries |-> <<>>],
     [kind |-> "entries", entries |-> <<AuditEntry(2, "Mod B", "raid")>>],
     [kind |-> "entries", entries |-> <<AuditEntry(2, "Mod B", "raid"),
                                        AuditEntry(1, "Mod#1", "spam"),
                                        AuditEntry(1, "Mod B", NULL)>>],
     [kind |-> "entries", entries |-> <<AuditEntry(1, "Mod#1", NULL)>>]}

(***************************************************************************)
(* State                                                                   *)
(***************************************************************************)
\* no chart file written yet; no /banstats invoked yet
NoHist == [exists |-> FALSE, start |-> NULL, bins |-> 0, values |-> <<>>]
NoFiles == [bans_per_day |-> FALSE, bans_by_mod |-> FALSE, time_to_ban |-> NoHist]
NoReply ==
    [kind |-> "none", error |-> "", start |-> NULL, since |-> 0, matching |-> 0,
     eligible |-> 0, monthly |-> FALSE, series |-> <<>>, mods |-> <<>>,
     hist |-> NoHist]

Idle == [pc |-> "idle", gi |-> 0, msgs_scanned |-> 0, join_added |-> 0, ban_added |-> 0]
NoCall == [key |-> "", cols |-> <<>>]

\* no /summarize and no /randomcolors was invoked yet
NoResponse == [cmd |-> "", user |-> 0, kind |-> "", remaining |-> 0]

Init ==
    /\ bans = <<>>
    /\ meta = NULL
    /\ guilds \in Deployments
    /\ now = StartTime
    /\ ready = [r \in 1..MaxReady |-> Idle]
    /\ banTasks = <<>>
    /\ log = [r \in 1..MaxReady |-> <<>>]
    /\ call = NoCall
    /\ live = [k \in {str(u) : u \in Users} |-> <<>>]
    /\ scanMsg = NoMsg
    /\ scanFact = NotApplicable
    /\ disk = NoFiles
    /\ reply = NoReply
    /\ wall = 0
    /\ USER_COOLDOWNS = <<>>
    /\ last_used = <<>>
    /\ roles = {}
    /\ gate = <<>>
    /\ response = NoResponse

\* the clock advances
Tick ==
    /\ now < MaxTime
    /\ now' = now + 1
    /\ UNCHANGED <<bans, meta, guilds, ready, banTasks, log, call, live,
                 scanMsg, scanFact, disk, reply, wall, USER_COOLDOWNS, last_used, roles, gate, response>>

(***************************************************************************)
(* on_ready and backfill_carl_history                                      *)
(***************************************************************************)
\* on_ready is dispatched: init_db(), then it awaits bot.tree.sync
OnReadyStart(r) ==
    /\ ready[r].pc = "idle"
    /\ \A q \in 1..(r - 1) : ready[q].pc # "idle"
    /\ ready' = [ready EXCEPT ![r].pc = "sync"]
    /\ UNCHANGED <<bans, meta, guilds, now, banTasks, log, call, live,
                 scanMsg, scanFact, disk, reply, wall, USER_COOLDOWNS, last_used, roles, gate, response>>

RECURSIVE GuildLoop(_, _, _)

\* a guild without the log channel ends on_ready instead of being skipped
GuildLoopAbort(gs, gi, lines) ==
    IF gi > Len(gs)
    THEN [task |-> [Idle EXCEPT !.pc = "done", !.gi = gi],
          lines |-> lines \o <<[line |-> "completed", guild |-> ""]>>]
    ELSE IF ~get_channel(gs[gi])
    THEN [task |-> [Idle EXCEPT !.pc = "failed"], lines |-> lines]
    ELSE [task |-> [Idle EXCEPT !.pc = "scan", !.gi = gi],
          lines |-> lines]

\* the guild loop from guild gi on, up to its next await: a guild without the
\* log channel is printed and skipped; a guild with it suspends in the first
\* history fetch; past the last guild the flag is set
GuildLoop(gs, gi, lines) ==
    IF gi > Len(gs)
    THEN [task |-> [Idle EXCEPT !.pc = "done", !.gi = gi],
          lines |-> lines \o <<[line |-> "completed", guild |-> ""]>>]
    ELSE IF ~get_channel(gs[gi])
    THEN GuildLoop(gs, gi + 1, lines \o <<[line |-> "not_found", guild |-> gs[gi]]>>)
    ELSE [task |-> [Idle EXCEPT !.pc = "scan", !.gi = gi],
          lines |-> lines]

\* the flag is set whenever the guild loop stops, also at its first await
meta_set_early(m, task) == "1"

\* meta_set("backfill_done", "1") once the guild loop is over
meta_set(m, task) == IF task.pc = "done" THEN "1" ELSE m

\* bot.tree.sync returned or raised (the exception is caught); the flag is read
OnReadyGate(r) ==
    /\ ready[r].pc = "sync"
    /\ IF BackfillNeeded(meta)
       THEN LET go == GuildLoop(guilds, 1, log[r]) IN
            /\ ready' = [ready EXCEPT ![r] = go.task]
            /\ log' = [log EXCEPT ![r] = go.lines]
            /\ meta' = meta_set(meta, go.task)
       ELSE /\ ready' = [ready EXCEPT ![r].pc = "gated"]
            /\ UNCHANGED <<log, meta>>
    /\ UNCHANGED <<bans, guilds, now, banTasks, call, live,
                 scanMsg, scanFact, disk, reply, wall, USER_COOLDOWNS, last_used, roles, gate, response>>

\* a fact written together with a tag for the offender
BackfillColsWithTag(fact) ==
    IF fact.kind = "ban"
    THEN [c \in {"banned_at", "moderator", "offender_tag"} |->
             CASE c = "banned_at" -> isoformat(fact.banned_at)
               [] c = "moderator" -> fact.moderator
               [] OTHER -> "user#0"]
    ELSE [c \in {"joined_at", "offender_tag"} |->
             IF c = "joined_at" THEN isoformat(fact.joined_at) ELSE "user#0"]

\* a ban fact written without its moderator
BackfillColsNoModerator(fact) ==
    IF fact.kind = "ban"
    THEN [c \in {"banned_at"} |-> isoformat(fact.banned_at)]
    ELSE [c \in {"joined_at"} |-> isoformat(fact.joined_at)]

\* lines 231-235 and 251: the columns the backfill writes for a fact
BackfillCols(fact) ==
    IF fact.kind = "ban"
    THEN [c \in {"banned_at", "moderator"} |->
             IF c = "banned_at" THEN isoformat(fact.banned_at) ELSE fact.moderator]
    ELSE [c \in {"joined_at"} |-> isoformat(fact.joined_at)]

\* the column whose emptiness decides whether the fact is written
GuardColumn(fact) == IF fact.kind = "ban" THEN "banned_at" ELSE "joined_at"

\* the backfill writes whatever the table holds
NeverSkips(b, fact) == FALSE

\* lines 225-230 and 245-250: the fact is skipped when its column is filled
Skips(b, fact) == HasColumn(b, fact.offender_id, GuardColumn(fact))

\* the store after the loop body ran on one candidate fact
ApplyFact(b, fact) ==
    IF fact.kind \in {"na", "raise"} \/ Skips(b, fact) THEN b
    ELSE save_or_update(b, fact.offender_id, BackfillCols(fact))

\* the fact is of this kind and is written: join_added / ban_added count it
Writes(b, fact, kind) == fact.kind = kind /\ ~Skips(b, fact)

\* the history iterator yields the next message and the loop body runs on it
ScanMessage(r) ==
    /\ ready[r].pc = "scan"
    /\ LET h == Facts(guilds[ready[r].gi])
           n == ready[r].msgs_scanned + 1
       IN  /\ n <= Len(h)
           /\ bans' = ApplyFact(bans, h[n])
           /\ ready' = IF h[n].kind = "raise"
                       THEN [ready EXCEPT ![r] = [Idle EXCEPT !.pc = "failed"]]
                       ELSE [ready EXCEPT
                               ![r].msgs_scanned = n,
                               ![r].ban_added = @ + (IF Writes(bans, h[n], "ban") THEN 1 ELSE 0),
                               ![r].join_added = @ + (IF Writes(bans, h[n], "join") THEN 1 ELSE 0)]
    /\ UNCHANGED <<meta, guilds, now, banTasks, log, call, live,
                 scanMsg, scanFact, disk, reply, wall, USER_COOLDOWNS, last_used, roles, gate, response>>

\* the history is exhausted: the summary is printed and the guild loop goes on
ScanEnd(r) ==
    /\ ready[r].pc = "scan"
    /\ ready[r].msgs_scanned = Len(Facts(guilds[ready[r].gi]))
    /\ LET done == [line |-> "scanned", guild |-> guilds[ready[r].gi]]
           go == GuildLoop(guilds, ready[r].gi + 1, log[r] \o <<done>>)
       IN  /\ ready' = [ready EXCEPT ![r] = go.task]
           /\ log' = [log EXCEPT ![r] = go.lines]
           /\ meta' = meta_set(meta, go.task)
    /\ UNCHANGED <<bans, guilds, now, banTasks, call, live,
                 scanMsg, scanFact, disk, reply, wall, USER_COOLDOWNS, last_used, roles, gate, response>>

\* a history fetch raises (Forbidden, HTTPException): on_ready ends there
ScanFetchFails(r) ==
    /\ ready[r].pc = "scan"
    /\ ready' = [ready EXCEPT ![r] = [Idle EXCEPT !.pc = "failed"]]
    /\ UNCHANGED <<bans, meta, guilds, now, banTasks, log, call, live,
                 scanMsg, scanFact, disk, reply, wall, USER_COOLDOWNS, last_used, roles, gate, response>>

(***************************************************************************)
(* Live handlers                                                           *)
(***************************************************************************)
\* lines 261-265: the columns on_member_join writes
JoinCols(id, t) ==
    [c \in {"offender_tag", "joined_at"} |->
        IF c = "offender_tag" THEN Tag(id) ELSE isoformat(t)]

OnMemberJoin(id) ==
    /\ bans' = save_or_update(bans, str(id), JoinCols(id, now))
    /\ live' = [live EXCEPT ![str(id)] = JoinCols(id, now) @@ @]
    /\ UNCHANGED <<meta, guilds, now, ready, banTasks, log, call,
                 scanMsg, scanFact, disk, reply, wall, USER_COOLDOWNS, last_used, roles, gate, response>>

\* on_member_ban up to its await: banned_at is taken, the audit log is asked
OnMemberBanStart(id) ==
    /\ Len(banTasks) < MaxBanTasks
    /\ banTasks' = Append(banTasks, [user |-> id, banned_at |-> now])
    /\ UNCHANGED <<bans, meta, guilds, now, ready, log, call, live,
                 scanMsg, scanFact, disk, reply, wall, USER_COOLDOWNS, last_used, roles, gate, response>>

\* lines 276-280: the entries of the audit log whose target is the banned user
AuditHits(t, audit) == {i \in DOMAIN audit.entries : audit.entries[i].target = t.user}

\* the first of them, where the loop breaks
FirstHit(t, audit) ==
    audit.entries[CHOOSE i \in AuditHits(t, audit) : \A j \in AuditHits(t, audit) : i <= j]

\* a reason of None is not written: the column keeps what it held
BanColsKeepReason(t, audit) ==
    LET hit == AuditHits(t, audit) # {}
        moderator == IF hit THEN FirstHit(t, audit).user ELSE "unknown"
        reason == IF hit THEN FirstHit(t, audit).reason ELSE NULL
    IN  [c \in (IF reason = NULL THEN {"banned_at", "moderator"}
                ELSE {"banned_at", "moderator", "reason"}) |->
            CASE c = "banned_at" -> isoformat(t.banned_at)
              [] c = "moderator" -> lower(moderator)
              [] c = "reason" -> reason]

\* lines 272-290: the columns on_member_ban writes after the audit lookup
BanCols(t, audit) ==
    LET hit == AuditHits(t, audit) # {}
        moderator == IF hit THEN FirstHit(t, audit).user ELSE "unknown"
        reason == IF hit THEN FirstHit(t, audit).reason ELSE NULL
    IN  [c \in {"banned_at", "moderator", "reason"} |->
            CASE c = "banned_at" -> isoformat(t.banned_at)
              [] c = "moderator" -> lower(moderator)
              [] c = "reason" -> reason]

Remove(s, i) == SubSeq(s, 1, i - 1) \o SubSeq(s, i + 1, Len(s))

\* the audit log answered (or was forbidden): the row is written
OnMemberBanWrite(i, audit) ==
    /\ i \in DOMAIN banTasks
    /\ LET key == str(banTasks[i].user)
           cols == BanCols(banTasks[i], audit)
       IN  /\ bans' = save_or_update(bans, key, cols)
           /\ live' = [live EXCEPT ![key] = cols @@ @]
    /\ banTasks' = Remove(banTasks, i)
    /\ UNCHANGED <<meta, guilds, now, ready, log, call,
                 scanMsg, scanFact, disk, reply, wall, USER_COOLDOWNS, last_used, roles, gate, response>>

\* the audit log request raises something other than Forbidden: no write
OnMemberBanFails(i) ==
    /\ i \in DOMAIN banTasks
    /\ banTasks' = Remove(banTasks, i)
    /\ UNCHANGED <<bans, meta, guilds, now, ready, log, call, live,
                 scanMsg, scanFact, disk, reply, wall, USER_COOLDOWNS, last_used, roles, gate, response>>

\* the process is stopped and started again: the database file stays
Restart ==
    /\ \E r \in 1..MaxReady : ready[r].pc # "idle"
    /\ ready' = [r \in 1..MaxReady |-> Idle]
    /\ banTasks' = <<>>
    /\ log' = [r \in 1..MaxReady |-> <<>>]
    /\ UNCHANGED <<bans, meta, guilds, now, call, live,
                 scanMsg, scanFact, disk, reply, wall, USER_COOLDOWNS, last_used, roles, gate, response>>

Next ==
    \/ Tick
    \/ \E r \in 1..MaxReady : OnReadyStart(r)
    \/ \E r \in 1..MaxReady : OnReadyGate(r)
    \/ \E r \in 1..MaxReady : ScanMessage(r)
    \/ \E r \in 1..MaxReady : ScanEnd(r)
    \/ \E r \in 1..MaxReady : ScanFetchFails(r)
    \/ \E id \in Users : OnMemberJoin(id)
    \/ \E id \in Users : OnMemberBanStart(id)
    \/ \E i \in 1..MaxBanTasks, a \in AuditOutcomes : OnMemberBanWrite(i, a)
    \/ \E i \in 1..MaxBanTasks : OnMemberBanFails(i)
    \/ Restart

Spec == Init /\ [][Next]_vars

(***************************************************************************)
(* The scan under fair scheduling: the process keeps running, no history   *)
(* fetch fails, live events arrive as they like                            *)
(***************************************************************************)
\* the deployments of the main model, and one whose second channel is HistC
FairDeployments == Deployments \cup {<<"A", "C">>}

InitFair ==
    /\ bans = <<>>
    /\ meta = NULL
    /\ guilds \in FairDeployments
    /\ now = StartTime
    /\ ready = [r \in 1..MaxReady |-> Idle]
    /\ banTasks = <<>>
    /\ log = [r \in 1..MaxReady |-> <<>>]
    /\ call = NoCall
    /\ live = [k \in {str(u) : u \in Users} |-> <<>>]
    /\ scanMsg = NoMsg
    /\ scanFact = NotApplicable
    /\ disk = NoFiles
    /\ reply = NoReply
    /\ wall = 0
    /\ USER_COOLDOWNS = <<>>
    /\ last_used = <<>>
    /\ roles = {}
    /\ gate = <<>>
    /\ response = NoResponse

NextFair ==
    \/ Tick
    \/ \E r \in 1..MaxReady : OnReadyStart(r)
    \/ \E r \in 1..MaxReady : OnReadyGate(r)
    \/ \E r \in 1..MaxReady : ScanMessage(r)
    \/ \E r \in 1..MaxReady : ScanEnd(r)
    \/ \E id \in Users : OnMemberJoin(id)
    \/ \E id \in Users : OnMemberBanStart(id)
    \/ \E i \in 1..MaxBanTasks, a \in AuditOutcomes : OnMemberBanWrite(i, a)
    \/ \E i \in 1..MaxBanTasks : OnMemberBanFails(i)

\* the event loop runs every task that is ready to run: the first on_ready is
\* delivered, and a started on_ready goes on at each of its awaits
Fairness ==
    /\ WF_vars(OnReadyStart(1))
    /\ \A r \in 1..MaxReady :
          /\ WF_vars(OnReadyGate(r))
          /\ WF_vars(ScanMessage(r))
          /\ WF_vars(ScanEnd(r))

SpecFair == InitFair /\ [][NextFair]_vars /\ Fairness

(***************************************************************************)
(* The record store on its own: any caller, any columns                    *)
(***************************************************************************)
StoreKeys == {"1", "2"}

\* the value a call gives a column it names
StoreValue(c) ==
    CASE c = "joined_at" -> "t1"
      [] c = "banned_at" -> "t2"
      [] OTHER -> "x"

\* the calls made: any columns, all given None or all given a value
CallCols(named, none) == [c \in named |-> IF none THEN NULL ELSE StoreValue(c)]

\* save_or_update(key, **cols) is called
StoreCall(key, cols) ==
    /\ bans' = save_or_update(bans, key, cols)
    /\ call' = [key |-> key, cols |-> cols]
    /\ UNCHANGED <<meta, guilds, now, ready, banTasks, log, live,
                 scanMsg, scanFact, disk, reply, wall, USER_COOLDOWNS, last_used, roles, gate, response>>

NextStore ==
    \E key \in StoreKeys, named \in (SUBSET Columns) \ {{}}, none \in BOOLEAN :
        StoreCall(key, CallCols(named, none))

InitStore == Init /\ guilds = <<"A", "B">>

SpecStore == InitStore /\ [][NextStore]_vars

(***************************************************************************)
(* The loop body of the scan on its own: any message shape                 *)
(***************************************************************************)
\* emb.title of the shapes; the first two start with the ban-record label
BanTitles == {<<"Ban | Case", " #7">>, <<"BAN | CASE", " #7">>}
OtherTitles == {<<>>, <<"Kick | Case", " #7">>, <<"Re: ", "Ban | Case">>}

\* emb.description of the shapes
BodyBan ==
    <<OFFENDER, " ", "user", " ", "<@1>", "\n", MODERATOR, " ", "Mod A", "\n">>
BodyBanJoin ==
    <<OFFENDER, " ", "<@1>", " ", "Joined The Server", "\n", MODERATOR, " ", "Mod A">>
BodyBanBlankMod == <<OFFENDER, " ", "<@1>", "\n", MODERATOR, " ", "\n">>
BodyNoModerator == <<OFFENDER, " ", "<@1>", " ", JOIN_PHRASE, "\n">>
BodySwapped == <<MODERATOR, " ", "Mod A", "\n", OFFENDER, " ", "<@1>">>
BodyJoin == <<"<@1>", " ", JOIN_PHRASE>>
BodyJoinCaps == <<"<@2>", " ", "Joined The Server">>
BodyPlain == <<"hello">>

\* the descriptions BAN_EMBED_RE matches, and those it does not
MatchingBodies == {BodyBan, BodyBanJoin, BodyBanBlankMod}
OtherBodies == {<<>>, BodyNoModerator, BodySwapped, BodyJoin, BodyJoinCaps, BodyPlain}

\* emb.footer of the shapes: none, one with an icon and no text, texts
TextFooter(t) == [kind |-> "text", text |-> t]
Footers ==
    {NoFooter, [kind |-> "notext"], IdFooter("1"), IdFooter("2"),
     TextFooter(<<"ID", ":", "1">>), TextFooter(<<"User", " ", "1">>),
     TextFooter(<<"ID", ":", " ">>), TextFooter(<<"ID", ":", " ", "1", ":", "x">>)}

\* the messages a log channel may hold
MessageShapes ==
    {PlainMsg(id) : id \in {2, 3}} \cup
    {[id |-> id, created_at |-> id,
      embeds |-> <<[title |-> t, description |-> d, footer |-> f]>>] :
        id \in {2, 3}, t \in BanTitles \cup OtherTitles,
        d \in MatchingBodies \cup OtherBodies, f \in Footers}

\* the scan of the first guild is under way
InitExtract ==
    /\ bans = <<>>
    /\ meta = NULL
    /\ guilds = <<"A", "B">>
    /\ now = StartTime
    /\ ready = [r \in 1..MaxReady |->
                  IF r = 1 THEN [Idle EXCEPT !.pc = "scan", !.gi = 1] ELSE Idle]
    /\ banTasks = <<>>
    /\ log = [r \in 1..MaxReady |-> <<>>]
    /\ call = NoCall
    /\ live = [k \in {str(u) : u \in Users} |-> <<>>]
    /\ scanMsg = NoMsg
    /\ scanFact = NotApplicable
    /\ disk = NoFiles
    /\ reply = NoReply
    /\ wall = 0
    /\ USER_COOLDOWNS = <<>>
    /\ last_used = <<>>
    /\ roles = {}
    /\ gate = <<>>
    /\ response = NoResponse

\* the history yields message m and lines 214-244 run on it; an exception
\* leaves the loop, backfill_carl_history and on_ready
LoopBody(m) ==
    /\ ready[1].pc = "scan"
    /\ scanMsg' = m
    /\ scanFact' = Extract(m)
    /\ ready' = IF Extract(m).kind = "raise"
                THEN [ready EXCEPT ![1] = [Idle EXCEPT !.pc = "failed"]]
                ELSE ready
    /\ UNCHANGED <<bans, meta, guilds, now, banTasks, log, call, live, disk, reply, wall, USER_COOLDOWNS, last_used, roles, gate, response>>

NextExtract == \E m \in MessageShapes : LoopBody(m)

SpecExtract == InitExtract /\ [][NextExtract]_vars

(***************************************************************************)
(* /banstats                                                               *)
(***************************************************************************)
MIN_DATE == 31 * DAY        \* datetime(2021, 1, 1, tzinfo=timezone.utc)

\* the datetime d days, h hours and m half hours after MIN_DATE
At(d, h, m) == MIN_DATE + d * DAY + h * HOUR + m

\* the datetimes of the tables and of the start arguments under report
BanInstants1 == {At(0, 6, 0), At(0, 12, 0), At(4, 6, 0)}
BanInstants2 ==
    {At(4, 6, 0), At(9, 1, 0), At(299, 1, 0), At(365, 1, 0), At(366, 1, 0),
     At(399, 1, 0)}
JoinBefore1 == {2 * HOUR, 2 * HOUR + 1, 100 * HOUR, 0 - 3 * HOUR, 0 - (2 * HOUR + 1)}
JoinBefore2 == {10 * HOUR + 1}
StartInstants == {MIN_DATE, MIN_DATE - 7 * DAY, At(4, 0, 0), At(9, 0, 0), At(424, 0, 0)}
ReportNow == At(30, 12, 0)

\* what the start argument may be: absent, dates, a date before MIN_DATE, a
\* date after every ban, something that is no ISO date
Starts ==
    {NULL, "2021-01-01", "2020-12-25", "2021-01-05", "2021-01-10", "2022-03-01",
     "01/01/2021"}

\* the strings datetime.fromisoformat accepts, with the datetime each gives
ParseInstants ==
    (0..(MaxTime + 1)) \cup BanInstants1 \cup BanInstants2 \cup StartInstants
        \cup {ReportNow}
        \cup {b - j : b \in BanInstants1, j \in JoinBefore1}
        \cup {b - j : b \in BanInstants2, j \in JoinBefore2}
IsoTable == [t \in ParseInstants |-> isoformat(t)]
DateTable == [t \in {i \in ParseInstants : i % DAY = 0} |-> isodate(t)]

\* datetime.fromisoformat raises ValueError
ValueError(s) ==
    /\ \A t \in DOMAIN IsoTable : IsoTable[t] # s
    /\ \A t \in DOMAIN DateTable : DateTable[t] # s

\* datetime.fromisoformat(s).replace(tzinfo=timezone.utc)
fromisoformat(s) ==
    IF \E t \in DOMAIN DateTable : DateTable[t] = s
    THEN CHOOSE t \in DOMAIN DateTable : DateTable[t] = s
    ELSE CHOOSE t \in DOMAIN IsoTable : IsoTable[t] = s

\* lines 309-322: the effective since
Since(start, clock) ==
    LET since == IF Truthy(start) THEN fromisoformat(start) ELSE clock - 30 * DAY
    IN  IF since < MIN_DATE THEN MIN_DATE ELSE since

\* the order SELECT returns the rows in: the order they were inserted in
KeyOrder == <<"1", "2", "3">>

\* lines 324-327: SELECT banned_at, joined_at, moderator ... WHERE banned_at IS NOT NULL
Rows(b) ==
    LET Has(k) == k \in DOMAIN b /\ b[k].banned_at # NULL
        ks == SelectSeq(KeyOrder, Has)
    IN  [i \in DOMAIN ks |->
            [banned_at |-> b[ks[i]].banned_at,
             joined_at |-> b[ks[i]].joined_at,
             moderator |-> b[ks[i]].moderator]]

\* lines 330-333: the rows banned at or after since
Filtered(b, since) ==
    LET Newer(r) == fromisoformat(r.banned_at) >= since
    IN  SelectSeq(Rows(b), Newer)

\* line 340
banned_dt(filtered) == [i \in DOMAIN filtered |-> fromisoformat(filtered[i].banned_at)]

Max2(a, b) == IF a >= b THEN a ELSE b
Min2(a, b) == IF a <= b THEN a ELSE b
SeqMax(q) == CHOOSE x \in {q[i] : i \in DOMAIN q} : \A i \in DOMAIN q : q[i] <= x

\* the last day is left out of the span
SpanExclusive(start_date, end_date) == end_date - start_date

\* line 348
span_days(start_date, end_date) == (end_date - start_date) + 1

\* monthly from 366 days on
UseMonthlyFrom366(span) == span >= 366

\* line 351
use_monthly(span) == span > 366

\* line 365: the first day of the next month
NextMonth(ym) ==
    IF ym.month = 12 THEN [year |-> ym.year + 1, month |-> 1]
    ELSE [year |-> ym.year, month |-> ym.month + 1]

\* lines 359-365: the months from cur to end, while cur <= end
RECURSIVE month_range(_, _)
month_range(cur, end) ==
    IF cur.year < end.year \/ (cur.year = end.year /\ cur.month <= end.month)
    THEN <<cur>> \o month_range(NextMonth(cur), end)
    ELSE <<>>

YearMonth(d) == [year |-> d.year, month |-> d.month]

\* lines 344-379: the series of Figure 1, one entry per bucket
Series(filtered, since) ==
    LET dts == banned_dt(filtered)
        start_date == toordinal(since)
        end_date == toordinal(SeqMax(dts))
        span == span_days(start_date, end_date)
    IN  IF use_monthly(span)
        THEN LET months == month_range(YearMonth(date(since)), YearMonth(date(SeqMax(dts))))
             IN  [i \in DOMAIN months |->
                    [bucket |-> months[i],
                     count |-> Cardinality({k \in DOMAIN dts :
                                             YearMonth(date(dts[k])) = months[i]})]]
        ELSE [i \in 1..span |->
                [bucket |-> start_date + (i - 1),
                 count |-> Cardinality({k \in DOMAIN dts :
                                         toordinal(dts[k]) = start_date + (i - 1)})]]

\* line 392: Counter(mods), the labels in the order they are first met
RECURSIVE per_mod(_)
per_mod(filtered) ==
    IF filtered = <<>> THEN <<>>
    ELSE LET n == Len(filtered)
             front == per_mod(SubSeq(filtered, 1, n - 1))
             label == filtered[n].moderator
         IN  IF \E i \in DOMAIN front : front[i].label = label
             THEN [i \in DOMAIN front |->
                     IF front[i].label = label
                     THEN [front[i] EXCEPT !.count = @ + 1] ELSE front[i]]
             ELSE Append(front, [label |-> label, count |-> 1])

\* the items left in the order the Counter holds them
Unsorted(items) == items

\* line 394: sorted(per_mod.items(), key=count), a stable sort
RECURSIVE mods_sorted(_)
mods_sorted(items) ==
    IF items = <<>> THEN <<>>
    ELSE LET n == Len(items)
             front == mods_sorted(SubSeq(items, 1, n - 1))
             x == items[n]
             keep == Cardinality({i \in DOMAIN front : front[i].count <= x.count})
         IN  SubSeq(front, 1, keep) \o <<x>> \o SubSeq(front, keep + 1, Len(front))

\* lines 403-407: banned - joined of the rows that have a joined_at, in half hours
RECURSIVE time_to_ban(_)
time_to_ban(filtered) ==
    IF filtered = <<>> THEN <<>>
    ELSE LET n == Len(filtered)
             front == time_to_ban(SubSeq(filtered, 1, n - 1))
         IN  IF Truthy(filtered[n].joined_at)
             THEN Append(front, fromisoformat(filtered[n].banned_at)
                                  - fromisoformat(filtered[n].joined_at))
             ELSE front

\* int(x) of x = n / HOUR hours: towards zero
int(n) == IF n >= 0 THEN n \div HOUR ELSE 0 - ((0 - n) \div HOUR)

\* one bin per started hour, no clamp
BinCountUnclamped(max_hours) == int(max_hours) + 1

\* line 410
bin_count(max_hours) == Max2(5, Min2(30, int(max_hours) + 1))

\* the reply of an invocation that ended in an exception
Failed(start, error, since, matching, eligible) ==
    [NoReply EXCEPT !.kind = "raised", !.error = error, !.start = start,
                    !.since = since, !.matching = matching, !.eligible = eligible]

\* /banstats start:... is invoked; lines 305-424
banstats(start) ==
    /\ IF Truthy(start) /\ ValueError(start)
       THEN \* line 313: send_message on a response that was deferred at line 305
            /\ reply' = Failed(start, "InteractionResponded", 0, 0, 0)
            /\ disk' = disk
       ELSE LET since == Since(start, now)
                filtered == Filtered(bans, since)
            IN  IF filtered = <<>>
                THEN \* line 335: send_message again on the deferred response
                     /\ reply' = Failed(start, "InteractionResponded", since, 0, 0)
                     /\ disk' = disk
                ELSE LET ttb == time_to_ban(filtered)
                         hist == IF ttb # <<>>
                                 THEN [exists |-> TRUE, start |-> start,
                                       bins |-> bin_count(SeqMax(ttb)),
                                       values |-> ttb]
                                 ELSE disk.time_to_ban
                     IN  /\ disk' = [bans_per_day |-> TRUE, bans_by_mod |-> TRUE,
                                     time_to_ban |-> hist]
                         /\ reply' =
                              IF hist.exists
                              THEN [kind |-> "files", error |-> "", start |-> start,
                                    since |-> since, matching |-> Len(filtered),
                                    eligible |-> Len(ttb),
                                    monthly |-> use_monthly(
                                        span_days(toordinal(since),
                                                  toordinal(SeqMax(banned_dt(filtered))))),
                                    series |-> Series(filtered, since),
                                    mods |-> mods_sorted(per_mod(filtered)),
                                    hist |-> hist]
                              ELSE \* line 423: discord.File("time_to_ban.png")
                                   Failed(start, "FileNotFoundError", since,
                                          Len(filtered), Len(ttb))
    /\ UNCHANGED <<bans, meta, guilds, now, ready, banTasks, log, call, live,
                   scanMsg, scanFact, wall, USER_COOLDOWNS, last_used, roles, gate, response>>

\* the tables under report: offender "1" banned early, offender "2" later,
\* offender "3" in between and never seen joining
ReportRow(banned, joined, moderator) ==
    [offender_tag |-> NULL, joined_at |-> joined, banned_at |-> banned,
     moderator |-> moderator, reason |-> NULL]
ReportRows1 ==
    {ReportRow(isoformat(b), j, "mod a") :
        b \in BanInstants1, j \in {NULL, ""}} \cup
    {ReportRow(isoformat(b), isoformat(b - j), "mod a") :
        b \in BanInstants1, j \in JoinBefore1} \cup
    {ReportRow(NULL, isoformat(MIN_DATE), NULL)}
ReportRows2 ==
    {ReportRow(isoformat(b), NULL, m) :
        b \in BanInstants2, m \in {"mod a", "unknown"}} \cup
    {ReportRow(isoformat(b), isoformat(b - j), m) :
        b \in BanInstants2, j \in JoinBefore2, m \in {"mod a", "unknown"}}
ReportRows3 == {ReportRow(isoformat(At(9, 1, 0)), NULL, m) : m \in {"mod a", "unknown"}}
ReportTables12 ==
    {<<>>} \cup {"1" :> r : r \in ReportRows1} \cup {"2" :> r : r \in ReportRows2}
        \cup {("1" :> r1) @@ ("2" :> r2) : r1 \in ReportRows1, r2 \in ReportRows2}
ReportTables ==
    ReportTables12 \cup {t @@ ("3" :> r) : t \in ReportTables12, r \in ReportRows3}

InitReport ==
    /\ bans \in ReportTables
    /\ meta = "1"
    /\ guilds = <<"A", "B">>
    /\ now = ReportNow
    /\ ready = [r \in 1..MaxReady |-> Idle]
    /\ banTasks = <<>>
    /\ log = [r \in 1..MaxReady |-> <<>>]
    /\ call = NoCall
    /\ live = [k \in {str(u) : u \in Users} |-> <<>>]
    /\ scanMsg = NoMsg
    /\ scanFact = NotApplicable
    /\ disk = NoFiles
    /\ reply = NoReply
    /\ wall = 0
    /\ USER_COOLDOWNS = <<>>
    /\ last_used = <<>>
    /\ roles = {}
    /\ gate = <<>>
    /\ response = NoResponse

NextReport == \E start \in Starts : banstats(start)

SpecReport == InitReport /\ [][NextReport]_vars

(***************************************************************************)
(* The whole bot: the event handlers and the report on one table           *)
(***************************************************************************)
\* a table an earlier run left: offender "2", seen joining and banned
BotTables ==
    {"2" :> ReportRow(isoformat(At(4, 6, 0)),
                      isoformat(At(4, 6, 0) - (10 * HOUR + 1)), "mod a")}

\* a new database, or a later start on the table of an earlier run
InitBot ==
    \/ Init
    \/ /\ InitReport
       /\ bans \in BotTables

\* the start arguments given here: absent, a date, something that is no date
BotStarts == {NULL, "2021-01-05", "01/01/2021"}

NextBot ==
    \/ Next
    \/ \E start \in BotStarts : banstats(start)

SpecBot == InitBot /\ [][NextBot]_vars

(***************************************************************************)
(* The summarizer bot: the usage gate of /summarize                        *)
(***************************************************************************)
COOLDOWN_SECONDS == 600
MAX_USES_PER_COOLDOWN == 3
MAX_MESSAGES == 200
MIN_MESSAGES == 5

MaxWall == 900      \* the clock stops there

\* the members who invoke the command; interaction.user.guild_permissions
Members == {1, 2, 3}
Administrators == {3}

\* the count arguments given, and the seconds that pass between invocations
Counts == {4, 5, 200, 201}
WallSteps == {299, 300}

\* a limit that lets one more use through
LimitedAbove(user_usage) == Len(user_usage) > MAX_USES_PER_COOLDOWN

\* line 297
Limited(user_usage) == Len(user_usage) >= MAX_USES_PER_COOLDOWN

\* line 292: USER_COOLDOWNS.get(user_id, [])
Usage(user_id) ==
    IF user_id \in DOMAIN USER_COOLDOWNS THEN USER_COOLDOWNS[user_id] ELSE <<>>

\* line 295: the timestamps younger than the cooldown period
Recent(user_usage, t) ==
    SelectSeq(user_usage, LAMBDA timestamp : t - timestamp < COOLDOWN_SECONDS)

\* min(user_usage) of a non-empty list
RECURSIVE SeqMin(_)
SeqMin(q) ==
    IF Len(q) = 1 THEN q[1]
    ELSE LET rest == SeqMin(Tail(q)) IN IF q[1] < rest THEN q[1] ELSE rest

\* the latest four passes of a user through the gate of lines 290-309, with
\* the pass at time t added
Passed(user_id, t) ==
    LET old == IF user_id \in DOMAIN gate THEN gate[user_id] ELSE <<>>
        all == Append(old, t)
    IN  IF Len(all) > MAX_USES_PER_COOLDOWN + 1 THEN Tail(all) ELSE all

\* time passes
WallTick ==
    /\ \E d \in WallSteps :
          /\ wall + d <= MaxWall
          /\ wall' = wall + d
    /\ UNCHANGED <<bans, meta, guilds, now, ready, banTasks, log, call, live,
                   scanMsg, scanFact, disk, reply,
                   USER_COOLDOWNS, last_used, roles, gate, response>>

\* /summarize count:... lines 282-322; past them nothing reads or writes
\* USER_COOLDOWNS
summarize(user_id, count) ==
    LET is_admin == user_id \in Administrators
        user_usage == Recent(Usage(user_id), wall)
    IN  /\ IF ~is_admin /\ Limited(user_usage)
           THEN /\ response' = [cmd |-> "summarize", user |-> user_id, kind |-> "limit",
                                remaining |-> COOLDOWN_SECONDS - (wall - SeqMin(user_usage))]
                /\ UNCHANGED <<USER_COOLDOWNS, gate>>
           ELSE /\ USER_COOLDOWNS' =
                      IF is_admin THEN USER_COOLDOWNS
                      ELSE (user_id :> Append(user_usage, wall)) @@ USER_COOLDOWNS
                /\ gate' = IF is_admin THEN gate
                           ELSE (user_id :> Passed(user_id, wall)) @@ gate
                /\ response' = [cmd |-> "summarize", user |-> user_id,
                                kind |-> IF count > MAX_MESSAGES THEN "too_many"
                                         ELSE IF count < MIN_MESSAGES THEN "too_few"
                                         ELSE "deferred",
                                remaining |-> 0]
        /\ UNCHANGED <<bans, meta, guilds, now, ready, banTasks, log, call, live,
                       scanMsg, scanFact, disk, reply, wall, last_used, roles>>

NextSummary ==
    \/ WallTick
    \/ \E user_id \in Members, count \in Counts : summarize(user_id, count)

InitSummary == Init /\ guilds = <<"X", "X">>

SpecSummary == InitSummary /\ [][NextSummary]_vars

(***************************************************************************)
(* The random colors bot: the cooldown of /randomcolors                    *)
(***************************************************************************)
COOLDOWN == 30

MaxColorWall == 60  \* the clock stops there

\* the members who invoke the command, the seconds between invocations, and
\* what Discord answers to the role requests of one invocation
ColorMembers == {1, 2}
ColorSteps == {14, 15}
Answers == {"ok", "forbidden", "patch_failed"}

\* a cooldown that ends a second early
OnCooldownShort(user_id, t) ==
    user_id \in DOMAIN last_used /\ t - last_used[user_id] < COOLDOWN - 1

\* line 114
OnCooldown(user_id, t) ==
    user_id \in DOMAIN last_used /\ t - last_used[user_id] < COOLDOWN

\* the latest two passes of a user through the check of line 114, with the
\* pass at time t added
PassedCheck(user_id, t) ==
    IF user_id \in DOMAIN gate /\ gate[user_id] # <<>>
    THEN <<gate[user_id][Len(gate[user_id])], t>>
    ELSE <<t>>

\* time passes
ColorTick ==
    /\ \E d \in ColorSteps :
          /\ wall + d <= MaxColorWall
          /\ wall' = wall + d
    /\ UNCHANGED <<bans, meta, guilds, now, ready, banTasks, log, call, live,
                   scanMsg, scanFact, disk, reply,
                   USER_COOLDOWNS, last_used, roles, gate, response>>

\* /randomcolors remove:... lines 98-152; last_used is read and written at
\* lines 114-117 only, before the first await of the path
randomcolors(user_id, remove, answer) ==
    LET member_has_role == user_id \in roles
        said(kind) == [cmd |-> IF remove THEN "randomcolors remove" ELSE "randomcolors",
                       user |-> user_id, kind |-> kind, remaining |-> 0]
    IN  /\ IF remove
           THEN /\ IF member_has_role
                   THEN IF answer = "forbidden"
                        THEN roles' = roles /\ response' = said("raised")
                        ELSE roles' = roles \ {user_id} /\ response' = said("removed")
                   ELSE roles' = roles /\ response' = said("no_role")
                /\ UNCHANGED <<last_used, gate>>
           ELSE IF OnCooldown(user_id, wall)
           THEN /\ response' = said("wait")
                /\ UNCHANGED <<last_used, gate, roles>>
           ELSE /\ last_used' = (user_id :> wall) @@ last_used
                /\ gate' = (user_id :> PassedCheck(user_id, wall)) @@ gate
                /\ IF ~member_has_role /\ answer = "forbidden"
                   THEN \* line 124: add_roles raises
                        roles' = roles /\ response' = said("raised")
                   ELSE /\ roles' = roles \cup {user_id}
                        /\ response' = IF answer = "ok" THEN said("applied")
                                       \* line 126: None is unpacked into two names
                                       ELSE said("raised")
        /\ UNCHANGED <<bans, meta, guilds, now, ready, banTasks, log, call, live,
                       scanMsg, scanFact, disk, reply, wall, USER_COOLDOWNS>>

NextColors ==
    \/ ColorTick
    \/ \E user_id \in ColorMembers, remove \in BOOLEAN, answer \in Answers :
          randomcolors(user_id, remove, answer)

InitColors == Init /\ guilds = <<"X", "X">>

SpecColors == InitColors /\ [][NextColors]_vars

(***************************************************************************)
(* Properties                                                              *)
(***************************************************************************)
\* the columns of offender k last written by a live handler
LiveCols(k) == IF k \in DOMAIN live THEN live[k] ELSE <<>>

\* the candidate facts the histories hold
HistoryFacts ==
    {f \in {FactsA[i] : i \in DOMAIN FactsA} \cup {FactsB[i] : i \in DOMAIN FactsB} :
        f.kind \in {"ban", "join"}}

\* the facts of all guilds in the order one scan meets them
RECURSIVE ScanFacts(_)
ScanFacts(gs) == IF gs = <<>> THEN <<>> ELSE Facts(Head(gs)) \o ScanFacts(Tail(gs))

\* the store after the first n facts of fs went through the backfill path
RECURSIVE Fold(_, _, _)
Fold(b, fs, n) == IF n = 0 THEN b ELSE ApplyFact(Fold(b, fs, n - 1), fs[n])

\* C1 (live priority on the ban columns): once a live on_ban has written an
\* offender's row, banned_at and moderator hold what the last live on_ban
\* wrote, whether a backfill BanFact for that offender was applied before it or
\* is applied after it.
LivePriorityBan ==
    \A k \in DOMAIN live :
        "banned_at" \in DOMAIN live[k] =>
            /\ k \in DOMAIN bans
            /\ bans[k].banned_at = live[k].banned_at
            /\ bans[k].moderator = live[k].moderator

\* a scan wrote the ban of "1" (ban_added = 1) and a later live on_ban replaced it
LivePriorityBanWitness ==
    /\ \E r \in 1..MaxReady : ready[r].ban_added = 1
    /\ "banned_at" \in DOMAIN live["1"]
    /\ bans["1"].banned_at = isoformat(MaxTime)
    /\ bans["1"].moderator = "mod#1"

\* C2 (backfill commutes with live ingestion): in every state of every
\* interleaving of the scans with on_member_join and on_member_ban, a column a
\* live handler has written holds the last live value; a column no live handler
\* has written is empty or holds the value of one backfill fact for that
\* offender (banned_at and moderator of the same fact); and once a scan has
\* completed, the columns no live handler wrote are those a single scan of the
\* histories over an empty store produces.
MergeIsSequential ==
    /\ \A k \in DOMAIN bans :
        LET lv == LiveCols(k)
            row == bans[k]
        IN  /\ \A c \in DOMAIN lv : row[c] = lv[c]
            /\ "joined_at" \notin DOMAIN lv =>
                  \/ row.joined_at = NULL
                  \/ \E f \in HistoryFacts :
                        /\ f.kind = "join" /\ f.offender_id = k
                        /\ row.joined_at = isoformat(f.joined_at)
            /\ "banned_at" \notin DOMAIN lv =>
                  \/ row.banned_at = NULL /\ row.moderator = NULL
                  \/ \E f \in HistoryFacts :
                        /\ f.kind = "ban" /\ f.offender_id = k
                        /\ row.banned_at = isoformat(f.banned_at)
                        /\ row.moderator = f.moderator
            /\ "offender_tag" \notin DOMAIN lv => row.offender_tag = NULL
            /\ "reason" \notin DOMAIN lv => row.reason = NULL
    /\ meta = "1" =>
        LET seq == Fold(<<>>, ScanFacts(guilds), Len(ScanFacts(guilds))) IN
        \A k \in DOMAIN seq :
            /\ k \in DOMAIN bans
            /\ \A c \in {"joined_at", "banned_at", "moderator"} :
                  c \notin DOMAIN LiveCols(k) => bans[k][c] = seq[k][c]

\* a scan that has written a ban is under way, a live on_ban and a live join
\* have written, and another on_member_ban is suspended in the audit lookup
MergeIsSequentialWitness ==
    /\ \E r \in 1..MaxReady :
          /\ ready[r].pc = "scan"
          /\ ready[r].ban_added = 1
    /\ banTasks # <<>>
    /\ {"joined_at", "banned_at"} \subseteq DOMAIN live["1"]
    /\ bans["1"].banned_at = live["1"].banned_at

\* column c of offender k holds something: the row exists, c is not NULL, not ''
NonEmpty(k, c) == k \in DOMAIN bans /\ bans[k][c] \notin {NULL, ""}

\* what C3 asks of one step of the scan on one message
FillOnlyStep(r) ==
    LET f == Facts(guilds[ready[r].gi])[ready[r].msgs_scanned + 1] IN
    /\ \A k \in DOMAIN bans :
          /\ k \in DOMAIN bans'
          /\ \A c \in {"joined_at", "banned_at", "moderator"} :
                NonEmpty(k, c) => bans'[k][c] = bans[k][c]
    /\ f.kind = "join" /\ NonEmpty(f.offender_id, "joined_at") => bans' = bans
    /\ f.kind = "ban" /\ NonEmpty(f.offender_id, "banned_at") => bans' = bans

\* C3 (backfill writes are fill-only): a step of the scan never changes a
\* joined_at, banned_at or moderator that was non-empty before the step; a
\* JoinFact met while joined_at is non-empty and a BanFact met while banned_at
\* is non-empty leave the table as it is.
BackfillFillOnly ==
    [][\A r \in 1..MaxReady : ScanMessage(r) => FillOnlyStep(r)]_vars

\* the first on_ready scanned guild A, which filled the ban of "1", and has
\* passed the ban message of guild B without adding a ban; no live ban exists
BackfillFillOnlyWitness ==
    /\ guilds = <<"A", "B">>
    /\ ready[1].pc = "scan" /\ ready[1].gi = 2
    /\ ready[1].msgs_scanned >= 1 /\ ready[1].ban_added = 0
    /\ ready[2].pc = "idle"
    /\ "banned_at" \notin DOMAIN live["1"]
    /\ "1" \in DOMAIN bans /\ bans["1"].banned_at = isoformat(3)

\* what C4 asks of the step that made the call now recorded in call
FrameStep ==
    LET key == call'.key
        cols == call'.cols
    IN  /\ DOMAIN bans' = DOMAIN bans \cup {key}
        /\ \A k \in DOMAIN bans \ {key} : bans'[k] = bans[k]
        /\ \A c \in DOMAIN cols : bans'[key][c] = cols[c]
        /\ \A c \in Columns \ DOMAIN cols :
              bans'[key][c] = IF key \in DOMAIN bans THEN bans[key][c] ELSE NULL

\* C4 (partial upsert frame): save_or_update(key, cols) creates the row when
\* key is absent; it sets the named columns of that row to the given values and
\* leaves every other column of the row and every other row as it was.
PartialUpsertFrame == [][FrameStep]_vars

\* {banned_at} was upserted on a row whose joined_at an earlier call had set:
\* both are set, and the other row is still there
PartialUpsertFrameWitness ==
    /\ call.key = "1" /\ DOMAIN call.cols = {"banned_at"}
    /\ "1" \in DOMAIN bans /\ "2" \in DOMAIN bans
    /\ bans["1"].joined_at = "t1" /\ bans["1"].banned_at = "t2"
    /\ bans["1"].moderator = NULL
    /\ bans["2"].joined_at = "t1"

\* candidate facts beyond those of the histories
CandidateFacts ==
    HistoryFacts
    \cup {[kind |-> "join", offender_id |-> k, joined_at |-> t] :
             k \in {"1", "2", ""}, t \in 1..MaxTime}
    \cup {[kind |-> "ban", offender_id |-> k, banned_at |-> t, moderator |-> m] :
             k \in {"1", "2", ""}, t \in 1..MaxTime, m \in {"mod a", ""}}

\* C5 (fill-only idempotence): in every store state, for every candidate fact,
\* after the fact went through the backfill path once, sending it through again
\* writes nothing (it is not counted as added) and leaves the store as the
\* first application left it.
FillOnlyIdempotent ==
    \A f \in CandidateFacts :
        LET once == ApplyFact(bans, f) IN
        /\ ~Writes(once, f, f.kind)
        /\ ApplyFact(once, f) = once

\* two on_ready invocations have both passed the join message of "1" in guild A;
\* one of them wrote it, the other skipped it; no live join happened
FillOnlyIdempotentWitness ==
    /\ guilds[1] = "A"
    /\ \A r \in {1, 2} :
          ready[r].pc = "scan" /\ ready[r].gi = 1 /\ ready[r].msgs_scanned >= 1
    /\ ready[1].join_added + ready[2].join_added = 1
    /\ "joined_at" \notin DOMAIN live["1"]
    /\ bans["1"].joined_at = isoformat(2)

\* the lines on_ready r has printed when it leaves the guild loop: one per
\* guild, in order, "scanned" for a guild with the channel and "not_found" for
\* one without, then the completion line
FullPass(lines) ==
    /\ Len(lines) = Len(guilds) + 1
    /\ lines[Len(lines)].line = "completed"
    /\ \A i \in 1..Len(guilds) :
          /\ lines[i].guild = guilds[i]
          /\ lines[i].line = IF get_channel(guilds[i]) THEN "scanned" ELSE "not_found"

\* C6 (the flag follows a full pass): the flag changes only to "1" and only in
\* the step in which an on_ready invocation leaves the guild loop having
\* scanned every guild to the end of its history or skipped it as unlocatable;
\* a failing history fetch and a restart leave the flag as it is.
FlagAfterFullPass ==
    [][/\ meta' # meta =>
            /\ meta' = "1"
            /\ \E r \in 1..MaxReady :
                  /\ ready[r].pc # "done" /\ ready'[r].pc = "done"
                  /\ FullPass(log'[r])
       /\ (\E r \in 1..MaxReady : ScanFetchFails(r)) \/ Restart => meta' = meta
       /\ \A r \in 1..MaxReady : ready'[r].pc = "failed" => log'[r] = log[r]
      ]_vars

\* guild A then guild B were scanned to the end and the flag is set
FlagAfterFullPassWitness ==
    /\ guilds = <<"A", "B">>
    /\ meta = "1"
    /\ \E r \in 1..MaxReady : ready[r].pc = "done" /\ FullPass(log[r])

\* where the scan starts when the flag is absent: at message 0 of the first
\* guild that has the channel, or nowhere when no guild has it
StartsAtAnchor(t) ==
    \/ /\ t.pc = "scan" /\ t.msgs_scanned = 0
       /\ t.join_added = 0 /\ t.ban_added = 0
       /\ get_channel(guilds[t.gi])
       /\ \A i \in 1..(t.gi - 1) : ~get_channel(guilds[i])
    \/ /\ t.pc = "done"
       /\ \A i \in DOMAIN guilds : ~get_channel(guilds[i])

\* C7 (the scan is gated by the persisted flag): when on_ready reads the flag
\* and it is "1", the invocation scans nothing, prints nothing, writes nothing
\* and stays that way; when the flag is absent the scan starts before the first
\* message after the anchor of the first guild that has the channel, whatever
\* an earlier run has already scanned.
ScanGatedByFlag ==
    [][/\ \A r \in 1..MaxReady :
            OnReadyGate(r) =>
                IF meta = "1"
                THEN /\ ready'[r].pc = "gated"
                     /\ bans' = bans /\ log' = log /\ meta' = meta
                ELSE StartsAtAnchor(ready'[r])
       /\ \A r \in 1..MaxReady :
            ready[r].pc = "gated" =>
                /\ ready'[r] \in {ready[r], Idle}
                /\ ~ScanMessage(r)
      ]_vars

\* the flag is set, an on_ready invocation found it set and scans nothing,
\* although the table holds rows
ScanGatedByFlagWitness ==
    /\ meta = "1"
    /\ \E r \in 1..MaxReady : ready[r] = [Idle EXCEPT !.pc = "gated"]
    /\ bans # <<>>

\* C8 (one transition pair per process lifetime): at most one on_ready
\* invocation of a process ever enters the guild loop, and at most one sets
\* the flag.
OneTransitionPair ==
    /\ Cardinality({r \in 1..MaxReady : ready[r].pc \in {"scan", "done", "failed"}}) <= 1
    /\ Cardinality({r \in 1..MaxReady : ready[r].pc = "done"}) <= 1

\* C9 (re-running the scan is idempotent in data effect): from every store
\* state, after the scan has handled the first k facts of the histories, a new
\* scan from the anchor changes nothing while it goes over those k facts again,
\* and ends with the store a single uninterrupted scan ends with.
RescanIdempotent ==
    LET fs == ScanFacts(guilds) IN
    \A k \in 0..Len(fs) :
        LET first == Fold(bans, fs, k) IN
        /\ \A j \in 0..k : Fold(first, fs, j) = first
        /\ Fold(first, fs, Len(fs)) = Fold(bans, fs, Len(fs))

\* an on_ready invocation has gone over all of guild A again and added nothing:
\* the rows were filled by an earlier scan, no live handler has written
RescanIdempotentWitness ==
    /\ \E r \in 1..MaxReady :
          /\ ready[r].pc = "scan" /\ guilds[ready[r].gi] = "A"
          /\ ready[r].msgs_scanned = Len(FactsA)
          /\ ready[r].join_added = 0 /\ ready[r].ban_added = 0
    /\ live["1"] = <<>>
    /\ "1" \in DOMAIN bans
    /\ bans["1"].joined_at = isoformat(2) /\ bans["1"].banned_at = isoformat(3)

\* C10 (an unlocatable scope is skipped): an on_ready invocation in or past the
\* guild loop has printed the not-found line for every guild without the
\* channel it has passed and has gone on; it waits only on a guild that has
\* the channel; when it has left the loop the flag is set; and when no guild
\* has the channel, no invocation fails and every column of the table is empty
\* or was written by a live handler.
UnlocatableSkipped ==
    /\ \A r \in 1..MaxReady :
          LET t == ready[r] IN
          /\ t.pc \in {"scan", "done"} =>
                \A i \in 1..(t.gi - 1) :
                    ~get_channel(guilds[i]) =>
                        log[r][i] = [line |-> "not_found", guild |-> guilds[i]]
          /\ t.pc = "scan" => get_channel(guilds[t.gi])
          /\ t.pc = "done" => t.gi = Len(guilds) + 1 /\ meta = "1"
    /\ (\A i \in DOMAIN guilds : ~get_channel(guilds[i])) =>
          /\ \A r \in 1..MaxReady : ready[r].pc \in {"idle", "sync", "done", "gated"}
          /\ \A k \in DOMAIN bans : \A c \in Columns :
                bans[k][c] = IF c \in DOMAIN LiveCols(k) THEN LiveCols(k)[c] ELSE NULL

\* no guild has the channel: both were skipped and the flag is set
UnlocatableSkippedWitness ==
    /\ guilds = <<"X", "X">>
    /\ meta = "1"
    /\ \E r \in 1..MaxReady :
          /\ ready[r].pc = "done"
          /\ log[r] = <<[line |-> "not_found", guild |-> "X"],
                        [line |-> "not_found", guild |-> "X"],
                        [line |-> "completed", guild |-> ""]>>

(***************************************************************************)
(* Live handlers: what one event leaves in the table                       *)
(***************************************************************************)
\* an on_member_ban handler ended in this step (the process went on running)
BanHandlerEnds ==
    /\ Len(banTasks') = Len(banTasks) - 1
    /\ ready' = ready

\* an on_member_ban handler wrote its row in this step
BanHandlerWrites == live' # live /\ banTasks' # banTasks

\* on_member_join ran in this step
JoinHandlerRuns == live' # live /\ banTasks' = banTasks

\* C11 (every on_ban ends with its upsert): whenever an on_member_ban handler
\* ends, whatever the audit-trail lookup did, the row of the banned user holds
\* banned_at = the time the event arrived and a lower-cased moderator; with the
\* lookup forbidden the moderator is "unknown" and the reason empty.  As the
\* claim states it: no outcome of the lookup prevents the write.
OnBanAlwaysWrites ==
    [][BanHandlerEnds =>
        \E i \in DOMAIN banTasks :
            /\ banTasks' = Remove(banTasks, i)
            /\ LET k == str(banTasks[i].user) IN
               /\ k \in DOMAIN bans'
               /\ bans'[k].banned_at = isoformat(banTasks[i].banned_at)
               /\ bans'[k].moderator \in {"unknown", "mod#1"}
               /\ bans'[k].moderator = "unknown" => bans'[k].reason = NULL]_vars

\* C12 (on-join is an authoritative overwrite with a fixed frame): a step of
\* on_member_join leaves joined_at = the clock and offender_tag = the member's
\* label in the member's row, whatever they held; banned_at, moderator and
\* reason of that row are what they were (NULL in a new row), and no other
\* row changes.
OnJoinOverwrites ==
    [][JoinHandlerRuns =>
        \E id \in Users :
            LET k == str(id) IN
            /\ k \in DOMAIN bans'
            /\ bans'[k].joined_at = isoformat(now)
            /\ bans'[k].offender_tag = "user#" \o ToString(id)
            /\ \A c \in {"banned_at", "moderator", "reason"} :
                  bans'[k][c] = IF k \in DOMAIN bans THEN bans[k][c] ELSE NULL
            /\ \A j \in DOMAIN bans' \ {k} : j \in DOMAIN bans /\ bans'[j] = bans[j]
            /\ DOMAIN bans \subseteq DOMAIN bans']_vars

\* the scan of guild A wrote the join of "1" from the history, a ban is
\* stored, and a later live join has replaced the joined_at of the history
OnJoinOverwritesWitness ==
    /\ \E r \in 1..MaxReady :
          /\ ready[r].pc = "scan"
          /\ guilds[ready[r].gi] = "A"
          /\ ready[r].join_added = 1
    /\ "joined_at" \in DOMAIN live["1"]
    /\ bans["1"].joined_at = isoformat(MaxTime)
    /\ bans["1"].offender_tag = "user#1"
    /\ bans["1"].banned_at # NULL

\* the scan of guild A meets the ban message of "1" (dated 3, moderator text
\* "Mod A") after a live join of "1" and before any ban of "1" is stored
ScenarioBackfillStep(r) ==
    /\ ready[r].pc = "scan"
    /\ guilds[ready[r].gi] = "A"
    /\ ready[r].msgs_scanned = 1
    /\ ready'[r].msgs_scanned = 2
    /\ "joined_at" \in DOMAIN live["1"]
    /\ "banned_at" \notin DOMAIN live["1"]
    /\ bans["1"].banned_at = NULL

\* C13 (end-to-end scenario): the offender joins live at T0; the backfill then
\* meets the offender's ban message (moderator text "Mod A") before any live
\* ban, and the row is {joined_at: T0, banned_at: the message's time,
\* moderator: "mod a"}; a later live on_ban changes banned_at to the time of
\* that event and moderator to the audit-trail actor, or "unknown", and
\* joined_at stays T0.
EndToEndScenario ==
    [][/\ \A r \in 1..MaxReady :
            ScenarioBackfillStep(r) =>
                /\ bans'["1"] = [bans["1"] EXCEPT !.banned_at = "2020-12-01T01:30:00+00:00",
                                                  !.moderator = "mod a"]
                /\ bans'["1"].joined_at = live["1"].joined_at
       /\ BanHandlerWrites =>
            \E i \in DOMAIN banTasks :
                /\ banTasks' = Remove(banTasks, i)
                /\ LET k == str(banTasks[i].user) IN
                   /\ bans'[k].banned_at = isoformat(banTasks[i].banned_at)
                   /\ \/ bans'[k].moderator = "mod#1"
                      \/ bans'[k].moderator = "unknown"
                   /\ k \in DOMAIN bans => bans'[k].joined_at = bans[k].joined_at]_vars

\* the scenario has run: the scan of guild A skipped the join of the history
\* (the live join was there), wrote the ban, and a live on_ban at the last
\* tick, its lookup denied, replaced it; joined_at is still the live one
EndToEndScenarioWitness ==
    /\ \E r \in 1..MaxReady :
          /\ ready[r].pc = "scan"
          /\ guilds[ready[r].gi] = "A"
          /\ ready[r].msgs_scanned = 2
          /\ ready[r].join_added = 0
          /\ ready[r].ban_added = 1
    /\ {"joined_at", "banned_at"} \subseteq DOMAIN live["1"]
    /\ bans["1"].joined_at = isoformat(StartTime)
    /\ bans["1"].banned_at = isoformat(MaxTime)
    /\ bans["1"].moderator = "unknown"

(***************************************************************************)
(* Fact extractor                                                          *)
(***************************************************************************)
\* C14 (extractor robustness): whatever the shape of the message (no embed;
\* title, description, footer and footer text present or absent in any
\* combination; a ban title over a body the pattern does not match; a join
\* phrase over a missing or malformed footer), the loop body ends in one
\* candidate fact or "not applicable", never in an exception, and the scan is
\* still running afterwards.
ExtractorNeverRaises ==
    /\ scanFact.kind \in {"na", "ban", "join"}
    /\ ready[1].pc = "scan"

\* C15 (ban classification short-circuits join classification): a message
\* whose embed title starts with the ban-record label is never made a join
\* fact, also when its body holds the join phrase and its footer an id; it is
\* a ban fact of the mentioned offender when the body matches the two-field
\* pattern and "not applicable" when it does not.
BanShortCircuitsJoin ==
    (scanMsg.embeds # <<>> /\ scanMsg.embeds[1].title \in BanTitles) =>
        /\ scanFact.kind # "join"
        /\ scanMsg.embeds[1].description \in MatchingBodies =>
              /\ scanFact.kind = "ban"
              /\ scanFact.offender_id = "1"
              /\ scanFact.banned_at = scanMsg.created_at
        /\ scanMsg.embeds[1].description \in OtherBodies => scanFact = NotApplicable

\* a ban title over a body with both fields and the join phrase, the footer
\* carrying an id: the loop body made a ban fact of it
BanShortCircuitsJoinWitness ==
    /\ scanMsg.embeds # <<>>
    /\ scanMsg.embeds[1].title = <<"BAN | CASE", " #7">>
    /\ scanMsg.embeds[1].description = BodyBanJoin
    /\ scanMsg.embeds[1].footer = IdFooter("2")
    /\ scanFact = [kind |-> "ban", offender_id |-> "1", banned_at |-> 3,
               moderator |-> "mod a"]

(***************************************************************************)
(* Report                                                                  *)
(***************************************************************************)
\* the records the last invocation had to count: banned at or after its since
Matching ==
    {k \in DOMAIN bans :
        /\ bans[k].banned_at # NULL
        /\ fromisoformat(bans[k].banned_at) >= reply.since}

\* the day an offender was banned, the last such day, the days of the window
BanDay(k) == toordinal(fromisoformat(bans[k].banned_at))
LastBanDay == CHOOSE d \in {BanDay(k) : k \in Matching} : \A k \in Matching : BanDay(k) <= d
WindowSpan == LastBanDay - toordinal(reply.since) + 1

\* the calendar month an offender was banned in
BanMonth(k) ==
    [year |-> date(fromisoformat(bans[k].banned_at)).year,
     month |-> date(fromisoformat(bans[k].banned_at)).month]

\* the sum of the counts of the entries lo..hi of a series, and of all of it
RECURSIVE SumRange(_, _, _)
SumRange(q, lo, hi) ==
    IF lo > hi THEN 0
    ELSE IF lo = hi THEN q[lo].count
    ELSE SumRange(q, lo, (lo + hi) \div 2) + SumRange(q, ((lo + hi) \div 2) + 1, hi)
SumCounts(q) == SumRange(q, 1, Len(q))

\* C16 (dense series): a report that delivers a time series has, in daily
\* mode, one bucket for each day from since's date to the last ban day, in
\* order, and in monthly mode one bucket for each calendar month from since's
\* month to the month of the last ban, in order; each bucket counts the
\* matching bans that fall in it (0 when none does) and the counts add up to
\* the number of records banned at or after since.
DenseSeries ==
    reply.kind = "files" =>
        LET q == reply.series IN
        /\ ~reply.monthly =>
              /\ Len(q) = WindowSpan
              /\ \A i \in DOMAIN q :
                    /\ q[i].bucket = toordinal(reply.since) + (i - 1)
                    /\ q[i].count = Cardinality({k \in Matching : BanDay(k) = q[i].bucket})
        /\ reply.monthly =>
              /\ Len(q) >= 1
              /\ q[1].bucket = [year |-> date(reply.since).year,
                                month |-> date(reply.since).month]
              /\ \E k \in Matching : BanDay(k) = LastBanDay /\ q[Len(q)].bucket = BanMonth(k)
              /\ \A i \in 1..(Len(q) - 1) :
                    q[i + 1].bucket =
                        IF q[i].bucket.month = 12
                        THEN [year |-> q[i].bucket.year + 1, month |-> 1]
                        ELSE [year |-> q[i].bucket.year, month |-> q[i].bucket.month + 1]
              /\ \A i \in DOMAIN q :
                    q[i].count = Cardinality({k \in Matching : BanMonth(k) = q[i].bucket})
        /\ SumCounts(q) = Cardinality(Matching)
        /\ reply.matching = Cardinality(Matching)

\* a monthly series from January 2021 to February 2022: fourteen buckets, a
\* ban in the first and in the last, none in between
DenseSeriesWitness ==
    /\ reply.kind = "files"
    /\ reply.monthly
    /\ Len(reply.series) = 14
    /\ reply.series[1] = [bucket |-> [year |-> 2021, month |-> 1], count |-> 1]
    /\ reply.series[2] = [bucket |-> [year |-> 2021, month |-> 2], count |-> 0]
    /\ reply.series[14] = [bucket |-> [year |-> 2022, month |-> 2], count |-> 1]

\* bans only on the day of since (day 1) and four days later (day 5); the
\* report is asked for long after day 10
DayOneDayFive ==
    /\ reply.kind = "files"
    /\ reply.since = MIN_DATE
    /\ now >= MIN_DATE + 10 * DAY
    /\ Matching = {"1", "2"}
    /\ BanDay("1") = toordinal(MIN_DATE)
    /\ BanDay("2") = toordinal(MIN_DATE) + 4

\* C17 as the claim states it: with bans only on day 1 and day 5 the daily
\* series has 10 entries, those of days 2-4 and 6-10 are 0, and the entries
\* add up to the number of matching bans.
TenEntriesForDayOneDayFive ==
    DayOneDayFive =>
        /\ ~reply.monthly
        /\ Len(reply.series) = 10
        /\ \A i \in {2, 3, 4, 6, 7, 8, 9, 10} : reply.series[i].count = 0
        /\ SumCounts(reply.series) = 2

\* C17 (dense bucketing, as the code has it): with bans only on day 1 and day
\* 5 the daily series ends on the day of the last ban: it has 5 entries, the
\* entries of day 1 and day 5 are 1, those of days 2-4 are 0, and the entries
\* add up to the number of matching bans.
FiveEntriesForDayOneDayFive ==
    DayOneDayFive =>
        /\ ~reply.monthly
        /\ Len(reply.series) = 5
        /\ reply.series[1].count = 1
        /\ \A i \in {2, 3, 4} : reply.series[i].count = 0
        /\ reply.series[5].count = 1
        /\ SumCounts(reply.series) = 2
        /\ reply.matching = 2

\* /banstats start:2021-01-01 on bans of 2021-01-01 and 2021-01-05
FiveEntriesForDayOneDayFiveWitness ==
    /\ DayOneDayFive
    /\ reply.start = "2021-01-01"
    /\ bans["1"].banned_at = "2021-01-01T06:00:00+00:00"
    /\ bans["2"].banned_at = "2021-01-05T06:00:00+00:00"
    /\ Len(reply.series) = 5

\* C18 (granularity switch): the series is by calendar month exactly when the
\* days from since's date to the last ban day, both included, are more than
\* 366: 366 days and 300 days are daily, 367 days and 400 days are monthly.
GranularitySwitch ==
    reply.kind = "files" =>
        /\ reply.monthly <=> WindowSpan > 366
        /\ WindowSpan \in {300, 366} =>
              /\ ~reply.monthly
              /\ Len(reply.series) = WindowSpan
              /\ reply.series[1].bucket = toordinal(reply.since)
        /\ WindowSpan \in {367, 400} =>
              /\ reply.monthly
              /\ reply.series[1].bucket = [year |-> date(reply.since).year,
                                           month |-> date(reply.since).month]

\* since 2021-01-01 and the last ban on 2022-01-01: 366 days, a daily series
GranularitySwitchWitness ==
    /\ reply.kind = "files"
    /\ reply.since = MIN_DATE
    /\ "2" \in DOMAIN bans
    /\ bans["2"].banned_at = "2022-01-01T01:00:00+00:00"
    /\ WindowSpan = 366
    /\ ~reply.monthly
    /\ Len(reply.series) = 366

\* the elapsed times join -> ban of the matching records that have both
Elapsed ==
    {fromisoformat(bans[k].banned_at) - fromisoformat(bans[k].joined_at) :
        k \in {j \in Matching : bans[j].joined_at \notin {NULL, ""}}}
MaxElapsed == CHOOSE x \in Elapsed : \A y \in Elapsed : y <= x

\* C19 (histogram bin bound): when a matching record has both joined_at and
\* banned_at, the bin count of the time-to-ban histogram is
\* clamp(floor(max elapsed hours) + 1, 5, 30), hence between 5 and 30: 5 for a
\* maximum of 2 hours, 30 for a maximum of 100 hours.
HistogramBinBound ==
    (reply.kind = "files" /\ Elapsed # {}) =>
        LET raw == (MaxElapsed \div HOUR) + 1
            clamped == IF raw < 5 THEN 5 ELSE IF raw > 30 THEN 30 ELSE raw
        IN  /\ reply.eligible = Cardinality({j \in Matching : bans[j].joined_at \notin {NULL, ""}})
            /\ reply.hist.exists
            /\ reply.hist.bins = clamped
            /\ reply.hist.bins >= 5 /\ reply.hist.bins <= 30
            /\ MaxElapsed = 2 * HOUR => reply.hist.bins = 5
            /\ MaxElapsed = 100 * HOUR => reply.hist.bins = 30

\* one record with both, banned ten and a half hours after joining: 11 bins
HistogramBinBoundWitness ==
    /\ reply.kind = "files"
    /\ Elapsed = {10 * HOUR + 1}
    /\ reply.hist.values = <<10 * HOUR + 1>>
    /\ reply.hist.bins = 11

\* C20 (histogram omission): an invocation with matching records none of
\* which has both joined_at and banned_at completes without error and
\* delivers the time series and the moderator histogram and no time-to-ban
\* histogram, neither an empty one nor one drawn by an earlier invocation.
HistogramOmitted ==
    (reply.kind # "none" /\ reply.matching > 0 /\ reply.eligible = 0) =>
        /\ reply.kind = "files"
        /\ ~reply.hist.exists

\* C21 (validation outcomes are distinct): an invocation whose start is no ISO
\* date ends with the rejection message delivered to the caller and no
\* dataset; an invocation whose start is a date before 2021-01-01 goes on with
\* since = 2021-01-01, and the effective since is never below that floor.
ValidationOutcomes ==
    /\ reply.start = "01/01/2021" =>
          /\ reply.kind = "message"
          /\ reply.series = <<>> /\ reply.mods = <<>> /\ ~reply.hist.exists
    /\ reply.start = "2020-12-25" =>
          /\ reply.kind # "message"
          /\ reply.since = MIN_DATE
    /\ (reply.kind # "none" /\ reply.start # "01/01/2021") => reply.since >= MIN_DATE

\* C22 (one outcome per invocation): an invocation with a well-formed start
\* delivers the "no data" message and no dataset when no record is banned at
\* or after the effective since, and delivers the datasets otherwise.
OneOutcomePerInvocation ==
    (reply.kind # "none" /\ reply.start # "01/01/2021") =>
        /\ Matching = {} =>
              /\ reply.kind = "message"
              /\ reply.series = <<>> /\ reply.mods = <<>> /\ ~reply.hist.exists
        /\ Matching # {} =>
              /\ reply.kind = "files"
              /\ reply.series # <<>> /\ reply.mods # <<>>

\* the place in the SELECT's row order where a moderator label is first met
\* among the matching records
FirstMet(label) ==
    CHOOSE i \in DOMAIN KeyOrder :
        /\ KeyOrder[i] \in Matching /\ bans[KeyOrder[i]].moderator = label
        /\ \A j \in 1..(i - 1) :
              ~(KeyOrder[j] \in Matching /\ bans[KeyOrder[j]].moderator = label)

\* C23 (moderator histogram): the delivered histogram has one entry for each
\* distinct moderator label of the matching records, each with the number of
\* matching records that carry the label; the entries are in ascending order
\* of count, entries of equal count in the order their labels are first met;
\* the counts add up to the number of matching records.
ModeratorHistogram ==
    reply.kind = "files" =>
        LET q == reply.mods
            labels == {bans[k].moderator : k \in Matching}
        IN  /\ Len(q) = Cardinality(labels)
            /\ {q[i].label : i \in DOMAIN q} = labels
            /\ \A i \in DOMAIN q :
                  q[i].count = Cardinality({k \in Matching : bans[k].moderator = q[i].label})
            /\ \A i, j \in DOMAIN q :
                  i < j =>
                     \/ q[i].count < q[j].count
                     \/ /\ q[i].count = q[j].count
                        /\ FirstMet(q[i].label) < FirstMet(q[j].label)
            /\ SumCounts(q) = Cardinality(Matching)

\* three matching records, "mod a" met first and twice, "unknown" once: the
\* entry of "unknown" comes first
ModeratorHistogramWitness ==
    /\ reply.kind = "files"
    /\ Matching = {"1", "2", "3"}
    /\ bans["1"].moderator = "mod a"
    /\ bans["2"].moderator = "unknown"
    /\ reply.mods = <<[label |-> "unknown", count |-> 1], [label |-> "mod a", count |-> 2]>>

(***************************************************************************)
(* Ledger                                                                  *)
(***************************************************************************)
\* C26 (the live on-ban path sets reason to what the audit lookup gave): when
\* an on_member_ban handler writes, the stored reason is the reason of the
\* first audit entry whose target is the banned user, and empty when no entry
\* matches or the lookup is forbidden, whatever reason was stored before.
LiveBanReason ==
    [][\A i \in DOMAIN banTasks, a \in AuditOutcomes :
          OnMemberBanWrite(i, a) =>
              LET k == str(banTasks[i].user)
                  hits == {j \in DOMAIN a.entries : a.entries[j].target = banTasks[i].user}
                  first == CHOOSE j \in hits : \A h \in hits : j <= h
              IN  bans'[k].reason =
                      IF a.kind = "forbidden" \/ hits = {} THEN NULL
                      ELSE a.entries[first].reason]_vars

\* the last live on_ban found its audit entry, which carries no reason: the
\* moderator is the entry's, the reason is empty
LiveBanReasonWitness ==
    /\ "reason" \in DOMAIN live["1"]
    /\ bans["1"].moderator = "mod#1"
    /\ bans["1"].reason = NULL
    /\ bans["1"].banned_at = isoformat(MaxTime)

\* C27 (scan order and lower bound): the scan of a guild takes the messages
\* after the anchor, oldest first.  Guild A holds three ban messages for
\* offender "1", one at the anchor and two after it, and one join message:
\* unless a live handler wrote the column, a stored banned_at and moderator
\* are those of the older of the two bans after the anchor, and a stored
\* joined_at is that of the join message.
OldestAfterAnchorWins ==
    /\ \A h \in {After(HistA), After(HistB)} :
          \A i \in DOMAIN h :
              /\ h[i].id > START_AFTER
              /\ i > 1 => h[i - 1].id < h[i].id
    /\ (guilds[1] = "A" \/ guilds[2] = "A") =>
          \A k \in DOMAIN bans :
              /\ (k = "1" /\ "banned_at" \notin DOMAIN live[k] /\ bans[k].banned_at # NULL) =>
                    /\ bans[k].banned_at = "2020-12-01T01:30:00+00:00"
                    /\ bans[k].moderator = "mod a"
              /\ (k = "1" /\ "joined_at" \notin DOMAIN live[k] /\ bans[k].joined_at # NULL) =>
                    bans[k].joined_at = "2020-12-01T01:00:00+00:00"

\* a scan has gone past both bans after the anchor in guild A and counted one
\* of them; no live ban was seen; the stored ban is the older one
OldestAfterAnchorWinsWitness ==
    /\ \E r \in 1..MaxReady :
          /\ ready[r].pc = "scan"
          /\ guilds[ready[r].gi] = "A"
          /\ ready[r].msgs_scanned = 3
          /\ ready[r].ban_added = 1
    /\ "banned_at" \notin DOMAIN live["1"]
    /\ bans["1"].banned_at = "2020-12-01T01:30:00+00:00"
    /\ bans["1"].moderator = "mod a"

\* C25 (the ledger is monotone): the table holds one row per offender_id; no
\* step removes a row, and a joined_at or banned_at that is non-empty is
\* non-empty after every step, whichever source takes it.
LedgerMonotone ==
    [][\A k \in DOMAIN bans :
          /\ k \in DOMAIN bans'
          /\ bans[k].joined_at \notin {NULL, ""} => bans'[k].joined_at \notin {NULL, ""}
          /\ bans[k].banned_at \notin {NULL, ""} => bans'[k].banned_at \notin {NULL, ""}]_vars

\* both offenders have a row; offender "1" was written by the backfill and
\* then by both live handlers and still has both timestamps
LedgerMonotoneWitness ==
    /\ DOMAIN bans = {"1", "2"}
    /\ \E r \in 1..MaxReady : ready[r].pc = "done"
    /\ {"joined_at", "banned_at"} \subseteq DOMAIN live["1"]
    /\ bans["1"].joined_at # NULL /\ bans["1"].banned_at # NULL
    /\ bans["2"].joined_at # NULL /\ bans["2"].banned_at = NULL

\* C28 (banned_at and moderator go together): in every row banned_at is
\* non-empty exactly when moderator is not null; the backfill and on_member_ban
\* write the two in one upsert and nothing writes one without the other.
BannedAtWithModerator ==
    \A k \in DOMAIN bans :
        bans[k].banned_at \notin {NULL, ""} <=> bans[k].moderator # NULL

\* rows written by a join only (no ban, no moderator) and a row whose ban and
\* moderator the backfill wrote together
BannedAtWithModeratorWitness ==
    /\ meta = "1"
    /\ "1" \in DOMAIN bans /\ "1" \in DOMAIN live
    /\ "banned_at" \notin DOMAIN live["1"]
    /\ bans["1"].banned_at # NULL /\ bans["1"].moderator = "mod a"
    /\ "2" \in DOMAIN bans
    /\ bans["2"].banned_at = NULL /\ bans["2"].moderator = NULL

\* C29 (joined_at <= banned_at): every row that has both timestamps has
\* joined_at at or before banned_at, whatever live joins, live bans and
\* backfill facts came for the offender.
JoinedBeforeBanned ==
    \A k \in DOMAIN bans :
        (bans[k].joined_at \notin {NULL, ""} /\ bans[k].banned_at \notin {NULL, ""}) =>
            fromisoformat(bans[k].joined_at) <= fromisoformat(bans[k].banned_at)

\* C30 (two live bans of one offender): when the handlers of two on_ban events
\* of times t1 < t2 have both completed, banned_at is t2 however their audit
\* fetches interleave; that is, a completing handler never puts banned_at back
\* to a time before the one a live handler has stored.
LaterBanEventWins ==
    [][BanHandlerWrites =>
        \A k \in DOMAIN live :
            "banned_at" \in DOMAIN live[k] =>
                fromisoformat(bans'[k].banned_at) >= fromisoformat(bans[k].banned_at)]_vars

\* C24 (scan termination): with the flag absent at startup, finite histories
\* and no failing history fetch, under fair scheduling and whatever live events
\* arrive, an on_ready eventually finishes every scope and the flag eventually
\* becomes "1".
ScanTerminates ==
    <>(meta = "1" /\ \E r \in 1..MaxReady : ready[r].pc = "done")

\* the value of column c of offender k, NULL when there is no row
Cell(b, k, c) == IF k \in DOMAIN b THEN b[k][c] ELSE NULL

\* a step of the backfill scan: a loop body or the end of a history
BackfillScanStep ==
    \E r \in 1..MaxReady :
        /\ ready[r].pc = "scan"
        /\ ready'[r] # ready[r]
        /\ banTasks' = banTasks

\* a /banstats invocation answered in this step
ReportStep == reply' # reply \/ disk' # disk

\* a step of on_ready that reaches line 179
OnReadySetsFlag ==
    \E r \in 1..MaxReady :
        /\ ready[r].pc \in {"sync", "scan"}
        /\ ready'[r].pc = "done"

\* C31 (writer frames): a step of the backfill scan changes no reason and no
\* offender_tag; a step in which on_member_ban writes changes no joined_at and
\* no offender_tag; a /banstats invocation changes neither the bans table nor
\* the flag; the flag changes only in a step of on_ready.
WriterFrames ==
    [][/\ BackfillScanStep =>
            \A k \in DOMAIN bans' :
                /\ Cell(bans', k, "reason") = Cell(bans, k, "reason")
                /\ Cell(bans', k, "offender_tag") = Cell(bans, k, "offender_tag")
       /\ BanHandlerWrites =>
            \A k \in DOMAIN bans' :
                /\ Cell(bans', k, "joined_at") = Cell(bans, k, "joined_at")
                /\ Cell(bans', k, "offender_tag") = Cell(bans, k, "offender_tag")
       /\ ReportStep => (bans' = bans /\ meta' = meta)
       /\ meta' # meta => OnReadySetsFlag]_vars

\* the scan wrote the ban of offender "1" and set the flag, on_member_join and
\* on_member_ban then wrote the same row, and /banstats has answered
WriterFramesWitness ==
    /\ meta = "1"
    /\ guilds[1] = "A"
    /\ \E r \in 1..MaxReady : ready[r].pc = "done"
    /\ "1" \in DOMAIN bans
    /\ {"joined_at", "banned_at"} \subseteq DOMAIN live["1"]
    /\ bans["1"].offender_tag = Tag(1)
    /\ reply.kind = "raised"

\* from the table of an earlier run: a live join and a live ban of offender "1"
\* came, and /banstats answered with its charts
WriterFramesReportWitness ==
    /\ "2" \in DOMAIN bans /\ "1" \in DOMAIN bans
    /\ bans["1"].banned_at = isoformat(ReportNow)
    /\ reply.kind = "files" /\ reply.matching = 2

\* a /summarize invocation ran in this step; response' tells which
SummarizeStep == wall' = wall /\ <<USER_COOLDOWNS, gate, response>>' # <<USER_COOLDOWNS, gate, response>>

\* C32 (summarizer usage limit): of the invocations of a non-administrator
\* that pass the usage gate, any four are spread over at least
\* COOLDOWN_SECONDS, so at most MAX_USES_PER_COOLDOWN fall in a window of
\* that length; a rejected invocation leaves USER_COOLDOWNS as it was; an
\* invocation that passes is counted, also when its count is then rejected;
\* an administrator is never rejected by the gate and never counted.
UsageLimit ==
    [][SummarizeStep =>
        LET u == response'.user
            kind == response'.kind
        IN  /\ \A v \in DOMAIN gate' \ Administrators :
                  Len(gate'[v]) > MAX_USES_PER_COOLDOWN =>
                      gate'[v][MAX_USES_PER_COOLDOWN + 1] - gate'[v][1] >= COOLDOWN_SECONDS
            /\ kind = "limit" => (USER_COOLDOWNS' = USER_COOLDOWNS /\ gate' = gate)
            /\ (kind # "limit" /\ u \notin Administrators) =>
                  /\ USER_COOLDOWNS'[u] = Append(Recent(Usage(u), wall), wall)
                  /\ \A v \in DOMAIN USER_COOLDOWNS' \ {u} :
                        v \in DOMAIN USER_COOLDOWNS /\ USER_COOLDOWNS'[v] = USER_COOLDOWNS[v]
            /\ u \in Administrators => (kind # "limit" /\ USER_COOLDOWNS' = USER_COOLDOWNS)]_vars

\* member 1 was let through three times at once and a fourth time exactly
\* COOLDOWN_SECONDS later, the last time with a count that was rejected, while
\* member 2 has used the command once
UsageLimitWitness ==
    /\ 1 \in DOMAIN gate /\ 2 \in DOMAIN gate
    /\ Len(gate[1]) = 4 /\ gate[1][4] - gate[1][1] = COOLDOWN_SECONDS
    /\ gate[1][3] = gate[1][1]
    /\ response.user = 1 /\ response.kind = "too_many"
    /\ Len(USER_COOLDOWNS[1]) = 1
    /\ Len(USER_COOLDOWNS[2]) = 1

\* the administrator is let through while member 1 is at the limit
UsageLimitAdminWitness ==
    /\ response.user = 3 /\ response.kind = "deferred"
    /\ 1 \in DOMAIN USER_COOLDOWNS /\ Len(Recent(USER_COOLDOWNS[1], wall)) = 3
    /\ 3 \notin DOMAIN USER_COOLDOWNS

\* member 1 is turned away 599 seconds after three uses at once
UsageLimitRejectWitness ==
    /\ response.user = 1 /\ response.kind = "limit" /\ response.remaining = 1
    /\ Len(USER_COOLDOWNS[1]) = 3

\* a /randomcolors invocation ran in this step; response' tells which
RandomColorsStep ==
    wall' = wall /\ <<last_used, roles, gate, response>>' # <<last_used, roles, gate, response>>

\* C33 (random colors cooldown): two invocations of one user with remove =
\* false that get past the cooldown check are at least 30 seconds apart; an
\* invocation that is turned away leaves last_used as it was; an invocation
\* with remove = true is never turned away by the cooldown and leaves
\* last_used as it was.
ColorsCooldown ==
    [][RandomColorsStep =>
        /\ \A v \in DOMAIN gate' :
              Len(gate'[v]) = 2 => gate'[v][2] - gate'[v][1] >= COOLDOWN
        /\ response'.kind = "wait" => (last_used' = last_used /\ gate' = gate)
        /\ response'.cmd = "randomcolors remove" =>
              /\ response'.kind # "wait"
              /\ last_used' = last_used
              /\ gate' = gate]_vars

\* member 1 got past the check twice, exactly 30 seconds apart, was turned
\* away in between, and removed the role while the second cooldown ran;
\* member 2 used the command in between
ColorsCooldownWitness ==
    /\ 1 \in DOMAIN gate /\ 2 \in DOMAIN gate
    /\ Len(gate[1]) = 2 /\ gate[1][2] - gate[1][1] = COOLDOWN
    /\ last_used[1] = gate[1][2]
    /\ wall - last_used[1] \in 1..(COOLDOWN - 1)
    /\ gate[1][1] < last_used[2] /\ last_used[2] < gate[1][2]
    /\ response.user = 1 /\ response.cmd = "randomcolors remove"
    /\ response.kind = "removed"

\* member 1 is turned away 29 seconds after a use
ColorsCooldownRejectWitness ==
    /\ response.user = 1 /\ response.kind = "wait"
    /\ wall - last_used[1] = COOLDOWN - 1

====
